---- MODULE Spec2Model ----
(***************************************************************************)
(* A model of C2's loop unswitching (opto/loopUnswitch.cpp) and of the     *)
(* predicate framework (opto/predicates.cpp, opto/predicates.hpp), and of  *)
(* G1SurvRateGroup (gc/g1/g1SurvRateGroup.cpp).                            *)
(*                                                                         *)
(* The IR is a sequence of node records: the index of a node in the        *)
(* sequence is its _idx, Len(nodes) + 1 is C->unique().  Input i of a node *)
(* (in(i) of the source) is the element i + 1 of its field "in"; 0 stands  *)
(* for a null input.  Outputs are never stored: they are found by a scan   *)
(* over the inputs of all nodes.                                           *)
(***************************************************************************)
EXTENDS Integers, Sequences, FiniteSets, TLC

\* Bounds of the model.
MaxSegs == 2          \* branches in the body of the loop of the initial graph
MaxUnswitchMax == 2   \* largest unswitch_max of a loop head
MaxLoops == 3         \* loops in the loop tree

\* Input indices of a LoopNode.
EntryControl == 1
LoopBackControl == 2

VARIABLES
  nodes,     \* the IR graph
  loops,     \* the loop tree: loops[l].head is the head of loop l
  env,       \* flags and the node budget of the compilation
  pc,        \* position of the loop-optimization round or of the operation at work
  cur,       \* the loop the round looks at, or the unswitching candidate; the
             \* G1SurvRateGroup object
  res,       \* what the last call returned: policy_unswitching's answer, the
             \* classification of a projection, a Predicates object
  seen,      \* the candidate policy_unswitching's call found (history)
  last,      \* the locals of the operation at work and what it did (history)
  dfs        \* the CloneAssertionPredicateBool object at work and its strategy

vars == <<nodes, loops, env, pc, cur, res, seen, last, dfs>>

-----------------------------------------------------------------------------
(* Nodes *)

\* A node: opcode, inputs, the loop it belongs to (get_loop/get_ctrl; 0 is
\* outside of every loop of the model), its immediate dominator, and the fields
\* of the node classes: val (ConI value), cnt/max (LoopNode::_unswitch_count,
\* _unswitch_max), uo (CountedLoopNode::is_unroll_only), kind (normal/main loop),
\* reason (deopt reason of a ParsePredicate or of an uncommon trap call),
\* ztg (IfNode::is_zero_trip_guard), prob/fcnt (IfNode::_prob, _fcnt: the If
\* nodes of a loop body get values of their own).
NewNode(op, in, loop, idom) ==
  [op |-> op, in |-> in, loop |-> loop, idom |-> idom, val |-> 0, cnt |-> 0,
   max |-> 0, uo |-> FALSE, kind |-> "none", reason |-> "none", ztg |-> FALSE,
   prob |-> 0, fcnt |-> 0]

req(g, n) == Len(g[n].in)

In(g, n, i) == IF n = 0 \/ i + 1 > Len(g[n].in) THEN 0 ELSE g[n].in[i + 1]

set_req(g, n, i, m) == [g EXCEPT ![n].in[i + 1] = m]

unique(g) == Len(g) + 1

\* The output edges of n: pairs <<user, input index>>.
out_edges(g, n) ==
  UNION {{<<m, j - 1>> : j \in {i \in 1..Len(g[m].in) : g[m].in[i] = n}} : m \in 1..Len(g)}

outs(g, n) == {m \in 1..Len(g) : \E j \in 1..Len(g[m].in) : g[m].in[j] = n}

outcnt(g, n) == Cardinality(out_edges(g, n))

is_Region(g, n) == n # 0 /\ g[n].op \in {"Region", "Loop", "CountedLoop"}
is_Loop(g, n) == n # 0 /\ g[n].op \in {"Loop", "CountedLoop"}
is_CountedLoop(g, n) == n # 0 /\ g[n].op = "CountedLoop"
is_If(g, n) == n # 0 /\ g[n].op \in {"If", "RangeCheck", "ParsePredicate"}
is_Bool(g, n) == n # 0 /\ g[n].op = "Bool"
is_Cmp(g, n) == n # 0 /\ g[n].op \in {"CmpI", "CmpU", "CmpL", "CmpUL"}
is_ConI(g, n) == n # 0 /\ g[n].op = "ConI"
is_IfTrue(g, n) == n # 0 /\ g[n].op = "IfTrue"
is_IfFalse(g, n) == n # 0 /\ g[n].op = "IfFalse"
is_IfProj(g, n) == is_IfTrue(g, n) \/ is_IfFalse(g, n)
is_CFG(g, n) ==
  n # 0 /\ g[n].op \in {"Start", "Ctrl", "Region", "Loop", "CountedLoop", "If",
                        "RangeCheck", "ParsePredicate", "IfTrue", "IfFalse",
                        "TemplateAssertionPredicate", "Halt", "CallStaticJava"}

\* IfNode::proj_out(which): the projection of 'iff' of the given polarity, 0 if none.
proj_out(g, iff, which) ==
  LET ps == {p \in outs(g, iff) : g[p].op = (IF which = 1 THEN "IfTrue" ELSE "IfFalse")
                                  /\ In(g, p, 0) = iff}
  IN IF ps = {} THEN 0 ELSE CHOOSE p \in ps : TRUE

idom(g, n) == g[n].idom

-----------------------------------------------------------------------------
(* The initial graph: one loop below its entry. *)

\* Nodes 1..5 of every graph.
StartIdx == 1     \* Start
Con0Idx == 2      \* ConI 0
Con1Idx == 3      \* ConI 1
ParmIdx == 4      \* a loop-invariant value
EntryIdx == 5     \* the control node the loop is entered from
HeadIdx == 6      \* the loop head

BaseGraph ==
  << NewNode("Start", <<0>>, 0, 0),
     [NewNode("ConI", <<StartIdx>>, 0, 0) EXCEPT !.val = 0],
     [NewNode("ConI", <<StartIdx>>, 0, 0) EXCEPT !.val = 1],
     NewNode("Parm", <<StartIdx>>, 0, 0),
     NewNode("Ctrl", <<StartIdx>>, 0, StartIdx) >>

\* The branches a loop body is built from, from the head down to the back edge.
\* Diamond: an If whose two projections merge in a Region (the Region's idom is
\* the If).  Exit: an If one projection of which leaves the loop.  The
\* condition is a Bool over a Cmp computed outside the loop (InvCmp) or inside
\* it (VarCmp), a Bool over something that is no Cmp (InvNoCmp), or a constant.
\* cast: a CheckCastPP of the loop-invariant value pinned on the true or the
\* false projection of the If, or ("variant") a CheckCastPP of a Phi of the loop
\* pinned on the true projection.
SegKinds ==
  { [shape |-> "Diamond", cond |-> "InvCmp", op |-> "If", cast |-> "true"],
    [shape |-> "Diamond", cond |-> "InvCmp", op |-> "RangeCheck", cast |-> "false"],
    [shape |-> "Diamond", cond |-> "InvCmp", op |-> "If", cast |-> "variant"],
    [shape |-> "Diamond", cond |-> "VarCmp", op |-> "If", cast |-> "none"],
    [shape |-> "Diamond", cond |-> "InvNoCmp", op |-> "If", cast |-> "none"],
    [shape |-> "Diamond", cond |-> "Con", op |-> "If", cast |-> "none"],
    [shape |-> "Exit", cond |-> "InvCmp", op |-> "If", cast |-> "none"] }

\* The graph g with the nodes of the condition c appended; the condition is the
\* last node of the result (for "Con" nothing is appended: it is ConI 1).
AddCond(g, c, l) ==
  CASE c = "InvCmp" ->
         LET g1 == Append(g, NewNode("CmpI", <<0, ParmIdx, Con0Idx>>, 0, 0))
         IN Append(g1, NewNode("Bool", <<0, Len(g1)>>, 0, 0))
    [] c = "VarCmp" ->
         LET g1 == Append(g, NewNode("Phi", <<HeadIdx, ParmIdx, ParmIdx>>, l, 0))
             g2 == Append(g1, NewNode("CmpI", <<0, Len(g1), Con0Idx>>, l, 0))
         IN Append(g2, NewNode("Bool", <<0, Len(g2)>>, l, 0))
    [] c = "InvNoCmp" ->
         Append(g, NewNode("Bool", <<0, ParmIdx>>, 0, 0))
    [] OTHER -> g

CondOf(g, c) == IF c = "Con" THEN Con1Idx ELSE Len(g)

\* Appends the nodes of segment s below the control node 'ctrl' of loop l.
\* The result is <<graph, new control>>.
AddSeg(g, s, ctrl, l) ==
  LET g1 == AddCond(g, s.cond, l)
      iff == Len(g1) + 1
      g2 == Append(g1, [NewNode(s.op, <<ctrl, CondOf(g1, s.cond)>>, l, ctrl)
                          EXCEPT !.prob = iff, !.fcnt = iff + 1])
      g3 == Append(g2, NewNode("IfTrue", <<iff>>, l, iff))
  IN IF s.shape = "Diamond"
     THEN LET g4 == Append(g3, NewNode("IfFalse", <<iff>>, l, iff))
              g5 == Append(g4, NewNode("Region", <<0, iff + 1, iff + 2>>, l, iff))
              g6 == Append(g5, NewNode("Phi", <<HeadIdx, ParmIdx, ParmIdx>>, l, 0))
          IN CASE s.cast = "none" -> <<g5, iff + 3>>
               [] s.cast = "variant" ->
                    <<Append(g6, NewNode("CheckCastPP", <<iff + 1, Len(g6)>>, l, 0)), iff + 3>>
               [] OTHER ->
                    <<Append(g5, NewNode("CheckCastPP",
                                         <<IF s.cast = "true" THEN iff + 1 ELSE iff + 2,
                                           ParmIdx>>, l, 0)), iff + 3>>
     ELSE <<Append(g3, NewNode("IfFalse", <<iff>>, 0, iff)), iff + 1>>

RECURSIVE AddSegs(_, _, _, _)
AddSegs(g, segs, ctrl, l) ==
  IF segs = <<>> THEN <<g, ctrl>>
  ELSE LET r == AddSeg(g, Head(segs), ctrl, l)
       IN AddSegs(r[1], Tail(segs), r[2], l)

\* The heads a loop tree entry can have: _head->is_Loop() fails for a Region.
HeadKinds ==
  { [op |-> "Loop", uo |-> FALSE, kind |-> "normal"],
    [op |-> "CountedLoop", uo |-> FALSE, kind |-> "main"],
    [op |-> "CountedLoop", uo |-> TRUE, kind |-> "main"],
    [op |-> "Region", uo |-> FALSE, kind |-> "none"] }

\* The graph of loop 1 with head h, counters cnt/max and body segs.
LoopGraph(h, cnt, max, segs) ==
  LET hd == [NewNode(h.op, <<0, EntryIdx, 0>>, 1, EntryIdx)
               EXCEPT !.uo = h.uo, !.kind = h.kind, !.cnt = cnt, !.max = max]
      r == AddSegs(Append(BaseGraph, hd), segs, HeadIdx, 1)
  IN set_req(r[1], HeadIdx, LoopBackControl, r[2])

SegSeqs == UNION {[1..k -> SegKinds] : k \in 1..MaxSegs}

-----------------------------------------------------------------------------
(* Loop-tree and budget queries consumed by unswitching (not part of the   *)
(* unswitching sources: modelled from their contracts).                    *)

head_of(lt, l) == lt[l].head

\* IdealLoopTree::_body: the nodes of loop l.
body(g, l) == {n \in 1..Len(g) : g[n].loop = l}

\* IdealLoopTree::is_invariant: n is not computed inside loop l.
is_invariant(g, l, n) == g[n].loop # l

\* IdealLoopTree::is_loop_exit: iff has two projections and one of them is not
\* a member of loop l.
is_loop_exit(g, l, iff) ==
  /\ outcnt(g, iff) = 2
  /\ \E p \in outs(g, iff) : g[p].loop # l

\* PhaseIdealLoop::exceeding_node_budget(required): the nodes still available
\* (env.budget counts the limit less the reserve) do not cover 'required'.
exceeding_node_budget(g, e, required) == e.budget - Len(g) < required

\* IdealLoopTree::est_loop_clone_sz(factor): an estimate that grows with the
\* size of the loop body.
est_loop_clone_sz(g, l, factor) == factor * Cardinality(body(g, l))

\* PhaseIdealLoop::may_require_nodes(require).
may_require_nodes(g, e, require) == ~exceeding_node_budget(g, e, require)

-----------------------------------------------------------------------------
(* find_unswitching_candidate *)

\* is_candidate_at without the test of loop invariance.
is_candidate_at_M4(g, l, n, n_dom) ==
  /\ is_Region(g, n)
  /\ is_If(g, n_dom)
  /\ is_Bool(g, In(g, n_dom, 1))
  /\ is_Cmp(g, In(g, In(g, n_dom, 1), 1))
  /\ ~is_loop_exit(g, l, n_dom)

\* The test of the loop of find_unswitching_candidate for one node n of the
\* walk with immediate dominator n_dom.
is_candidate_at(g, l, n, n_dom) ==
  /\ is_Region(g, n)
  /\ is_If(g, n_dom)
  /\ is_Bool(g, In(g, n_dom, 1))
  /\ is_Cmp(g, In(g, In(g, n_dom, 1), 1))
  /\ is_invariant(g, l, In(g, n_dom, 1))
  /\ ~is_loop_exit(g, l, n_dom)

\* candidate_walk in which the first match is kept.
RECURSIVE candidate_walk_M5(_, _, _, _, _)
candidate_walk_M5(g, l, head, n, unswitch_iff) ==
  IF n = head \/ n = 0 THEN unswitch_iff
  ELSE LET n_dom == idom(g, n)
       IN candidate_walk_M5(g, l, head, n_dom,
                            IF unswitch_iff = 0 /\ is_Region(g, n) /\ is_If(g, n_dom)
                               /\ is_Bool(g, In(g, n_dom, 1))
                               /\ is_Cmp(g, In(g, In(g, n_dom, 1), 1))
                               /\ is_invariant(g, l, In(g, n_dom, 1))
                               /\ ~is_loop_exit(g, l, n_dom)
                            THEN n_dom ELSE unswitch_iff)

\* The loop 'while (n != head)': n walks up the immediate dominators, every
\* match overwrites unswitch_iff.
RECURSIVE candidate_walk(_, _, _, _, _)
candidate_walk(g, l, head, n, unswitch_iff) ==
  IF n = head \/ n = 0 THEN unswitch_iff
  ELSE LET n_dom == idom(g, n)
       IN candidate_walk(g, l, head, n_dom,
                         IF is_candidate_at(g, l, n, n_dom) THEN n_dom ELSE unswitch_iff)

\* The candidate If of loop l, 0 for nullptr.
find_unswitching_candidate(g, lt, l) ==
  LET head == head_of(lt, l)
  IN candidate_walk(g, l, head, In(g, head, LoopBackControl), 0)

-----------------------------------------------------------------------------
(* policy_unswitching *)

\* policy_unswitching without the test of the node budget.
policy_unswitching_M24(g, lt, e, l) ==
  LET head == head_of(lt, l)
  IN IF ~e.LoopUnswitching THEN "false"
     ELSE IF ~is_Loop(g, head) THEN "false"
     ELSE IF e.debug /\ exceeding_node_budget(g, e, 0) THEN "assert"
     ELSE IF is_CountedLoop(g, head) /\ g[head].uo THEN "false"
     ELSE IF g[head].cnt + 1 > g[head].max THEN "false"
     ELSE IF find_unswitching_candidate(g, lt, l) = 0 THEN "false"
     ELSE "true"

\* policy_unswitching without the test of the unswitch count.
policy_unswitching_M2(g, lt, e, l) ==
  LET head == head_of(lt, l)
  IN IF ~e.LoopUnswitching THEN "false"
     ELSE IF ~is_Loop(g, head) THEN "false"
     ELSE IF e.debug /\ exceeding_node_budget(g, e, 0) THEN "assert"
     ELSE IF is_CountedLoop(g, head) /\ g[head].uo THEN "false"
     ELSE IF find_unswitching_candidate(g, lt, l) = 0 THEN "false"
     ELSE IF may_require_nodes(g, e, est_loop_clone_sz(g, l, 2)) THEN "true"
     ELSE "false"

\* policy_unswitching that returns true once a candidate is found.
policy_unswitching_M3(g, lt, e, l) ==
  LET head == head_of(lt, l)
  IN IF ~e.LoopUnswitching THEN "false"
     ELSE IF ~is_Loop(g, head) THEN "false"
     ELSE IF e.debug /\ exceeding_node_budget(g, e, 0) THEN "assert"
     ELSE IF is_CountedLoop(g, head) /\ g[head].uo THEN "false"
     ELSE IF g[head].cnt + 1 > g[head].max THEN "false"
     ELSE IF find_unswitching_candidate(g, lt, l) = 0 THEN "false"
     ELSE "true"

\* policy_unswitching without the test for a candidate.
policy_unswitching_M6(g, lt, e, l) ==
  LET head == head_of(lt, l)
  IN IF ~e.LoopUnswitching THEN "false"
     ELSE IF ~is_Loop(g, head) THEN "false"
     ELSE IF e.debug /\ exceeding_node_budget(g, e, 0) THEN "assert"
     ELSE IF is_CountedLoop(g, head) /\ g[head].uo THEN "false"
     ELSE IF g[head].cnt + 1 > g[head].max THEN "false"
     ELSE IF may_require_nodes(g, e, est_loop_clone_sz(g, l, 2)) THEN "true"
     ELSE "false"

\* "true", "false", or "assert" when the sanity assertion of a debug build fails.
policy_unswitching(g, lt, e, l) ==
  LET head == head_of(lt, l)
  IN IF ~e.LoopUnswitching THEN "false"
     ELSE IF ~is_Loop(g, head) THEN "false"
     ELSE IF e.debug /\ exceeding_node_budget(g, e, 0) THEN "assert"
     ELSE IF is_CountedLoop(g, head) /\ g[head].uo THEN "false"
     ELSE IF g[head].cnt + 1 > g[head].max THEN "false"
     ELSE IF find_unswitching_candidate(g, lt, l) = 0 THEN "false"
     ELSE IF may_require_nodes(g, e, est_loop_clone_sz(g, l, 2)) THEN "true"
     ELSE "false"

-----------------------------------------------------------------------------
(* Graph operations consumed by unswitching (loopopts.cpp, loopnode.cpp:   *)
(* modelled from their contracts).                                         *)

\* The nodes clone_loop copies: the body of loop l and the projections by which
\* an If of the body leaves the loop.
clone_set(g, l) ==
  body(g, l) \cup {p \in 1..Len(g) : is_IfProj(g, p) /\ g[p].loop # l
                                     /\ In(g, p, 0) # 0 /\ g[In(g, p, 0)].loop = l}

\* old_new after clone_loop: the index of the clone of n, 0 (null) if n has none.
\* Clones get the next free indices in the order of their originals.
old_new_of(g, l) ==
  LET K == clone_set(g, l)
  IN [n \in 1..Len(g) |->
        IF n \in K THEN Len(g) + Cardinality({m \in K : m <= n}) ELSE 0]

\* PhaseIdealLoop::clone_loop(loop, old_new, dd, CloneIncludesStripMined,
\* side_by_side_idom): every node of the loop gets a clone whose inputs are the
\* clones of the inputs inside the loop and the same nodes outside of it; the
\* clones form loop l2; the clone of the head is dominated by side_by_side_idom.
clone_loop(g, l, l2, head, side_by_side_idom) ==
  LET K == clone_set(g, l)
      on == old_new_of(g, l)
      map(m) == IF m # 0 /\ m \in K THEN on[m] ELSE m
      orig(i) == CHOOSE k \in K : on[k] = i
      clone(k) == [g[k] EXCEPT !.in = [j \in 1..Len(g[k].in) |-> map(g[k].in[j])],
                               !.loop = IF g[k].loop = l THEN l2 ELSE g[k].loop,
                               !.idom = IF k = head THEN side_by_side_idom
                                        ELSE map(g[k].idom)]
  IN [i \in 1..(Len(g) + Cardinality(K)) |-> IF i <= Len(g) THEN g[i] ELSE clone(orig(i))]

\* PhaseIdealLoop::replace_loop_entry(head, new_entry).
replace_loop_entry(g, head, new_entry) ==
  [set_req(g, head, EntryControl, new_entry) EXCEPT ![head].idom = new_entry]

\* PhaseIdealLoop::dominated_by(prevdom, iff, false, false): the test of iff is
\* replaced by the constant prevdom stands for (1 for an IfTrue, 0 for an
\* IfFalse), and the data nodes that hang on the projection of iff that stays
\* are moved to prevdom.
dominated_by(g, prevdom, iff) ==
  LET con == IF is_IfTrue(g, prevdom) THEN Con1Idx ELSE Con0Idx
      g1 == set_req(g, iff, 1, con)
      dp == proj_out(g1, iff, IF is_IfTrue(g, prevdom) THEN 1 ELSE 0)
  IN IF outcnt(g1, iff) # 2 \/ dp = 0 THEN g1
     ELSE [n \in 1..Len(g1) |->
             IF ~is_CFG(g1, n) /\ In(g1, n, 0) = dp
             THEN [g1[n] EXCEPT !.in[1] = prevdom] ELSE g1[n]]

-----------------------------------------------------------------------------
(* create_slow_version_of_loop *)

\* UnswitchIf::create that always creates an If with the frequency of the
\* candidate as count.
UnswitchIf_create_M34(g, original_loop_entry, unswitching_candidate) ==
  LET unswitching_candidate_bool == In(g, unswitching_candidate, 1)
      unswitch_if == unique(g)
      g1 == Append(g, [NewNode("If", <<original_loop_entry, unswitching_candidate_bool>>,
                               0, original_loop_entry)
                         EXCEPT !.prob = g[unswitching_candidate].prob,
                                !.fcnt = g[unswitching_candidate].prob])
      g2 == Append(g1, NewNode("IfTrue", <<unswitch_if>>, 0, unswitch_if))
  IN Append(g2, NewNode("IfFalse", <<unswitch_if>>, 0, unswitch_if))

\* UnswitchIf::create: the If (a RangeCheck if the candidate is one) at the
\* original loop entry with the Bool of the candidate, and its two projections.
\* The new nodes are unique(g) (the If), the IfTrue and the IfFalse, in this order.
UnswitchIf_create(g, original_loop_entry, unswitching_candidate) ==
  LET unswitching_candidate_bool == In(g, unswitching_candidate, 1)
      unswitch_if == unique(g)
      op == IF g[unswitching_candidate].op = "RangeCheck" THEN "RangeCheck" ELSE "If"
      g1 == Append(g, [NewNode(op, <<original_loop_entry, unswitching_candidate_bool>>,
                               0, original_loop_entry)
                         EXCEPT !.prob = g[unswitching_candidate].prob,
                                !.fcnt = g[unswitching_candidate].fcnt])
      g2 == Append(g1, NewNode("IfTrue", <<unswitch_if>>, 0, unswitch_if))
  IN Append(g2, NewNode("IfFalse", <<unswitch_if>>, 0, unswitch_if))

\* fix_ctrl_of_loops that gives both loops the entry of the fast loop.
fix_ctrl_of_loops_M32(g, fast_head, slow_head, fast_loop_entry, slow_loop_entry) ==
  replace_loop_entry(replace_loop_entry(g, fast_head, fast_loop_entry),
                     slow_head, fast_loop_entry)

\* UnswitchedLoop::fix_ctrl_of_loops.
fix_ctrl_of_loops(g, fast_head, slow_head, fast_loop_entry, slow_loop_entry) ==
  replace_loop_entry(replace_loop_entry(g, fast_head, fast_loop_entry),
                     slow_head, slow_loop_entry)

\* UnswitchedLoop::unswitch and create_slow_version_of_loop: the selector If,
\* the clone of the loop as loop l2, the new entries of both loops.  The loops
\* of this specification have no Parse Predicate and no Template Assertion
\* Predicate above their head: can_clone() and has_any() are false for them, so
\* the entries stay the projections of the selector.
\* The result: the graph, the selector If, old_new, first_slow_loop_node_index.
create_slow_version_of_loop(g, l, l2, head, unswitching_candidate) ==
  LET original_loop_entry == In(g, head, EntryControl)
      unswitch_if_node == unique(g)
      g1 == UnswitchIf_create(g, original_loop_entry, unswitching_candidate)
      first_slow_loop_node_index == unique(g1)
      on == old_new_of(g1, l)
      g2 == clone_loop(g1, l, l2, head, unswitch_if_node)
      fast_loop_entry == proj_out(g2, unswitch_if_node, 1)
      slow_loop_entry == proj_out(g2, unswitch_if_node, 0)
  IN [g |-> fix_ctrl_of_loops(g2, head, on[head], fast_loop_entry, slow_loop_entry),
      unswitch_if |-> unswitch_if_node,
      old_new |-> on,
      first_slow_loop_node_index |-> first_slow_loop_node_index]

-----------------------------------------------------------------------------
(* do_unswitching *)

\* increment_unswitch_count that forgets the head of the slow loop.
increment_unswitch_count_M1(g, head, head_clone) ==
  [g EXCEPT ![head].cnt = g[head].cnt + 1]

\* "Increment unswitch count": both heads get the count of the original plus one.
increment_unswitch_count(g, head, head_clone) ==
  LET nct == g[head].cnt + 1
  IN [g EXCEPT ![head].cnt = nct, ![head_clone].cnt = nct]

\* The CheckCastPP nodes the hoisting loop pushes on its worklist: uses of a
\* projection of the candidate with a loop-invariant input 1.
invariant_casts(g, l, unswitching_candidate) ==
  {use \in 1..Len(g) :
     /\ g[use].op = "CheckCastPP"
     /\ \E proj \in outs(g, unswitching_candidate) : use \in outs(g, proj)
     /\ is_invariant(g, l, In(g, use, 1))}

\* hoist_cast pinning the copy on the selector projection of the other polarity.
hoist_cast_M22(g, use, invar_iff, on) ==
  LET proj == In(g, use, 0)
      invar_proj == proj_out(g, invar_iff, IF is_IfTrue(g, proj) THEN 0 ELSE 1)
      nuse == unique(g)
      g1 == Append(g, [g[use] EXCEPT !.in[1] = invar_proj, !.loop = g[invar_proj].loop])
  IN set_req(set_req(g1, use, 1, nuse), on[use], 1, nuse)

\* The body of the worklist loop for one cast: a clone pinned on the projection
\* of the selector of the same polarity becomes input 1 of the cast and of the
\* clone of the cast in the slow loop.
hoist_cast(g, use, invar_iff, on) ==
  LET proj == In(g, use, 0)
      invar_proj == proj_out(g, invar_iff, IF is_IfTrue(g, proj) THEN 1 ELSE 0)
      nuse == unique(g)
      g1 == Append(g, [g[use] EXCEPT !.in[1] = invar_proj, !.loop = g[invar_proj].loop])
  IN set_req(set_req(g1, use, 1, nuse), on[use], 1, nuse)

RECURSIVE hoist_casts(_, _, _, _)
hoist_casts(g, uses, invar_iff, on) ==
  IF uses = {} THEN g
  ELSE LET use == CHOOSE u \in uses : \A v \in uses : u <= v
       IN hoist_casts(hoist_cast(g, use, invar_iff, on), uses \ {use}, invar_iff, on)

\* hardwire with the two projections of the selector swapped.
hardwire_M7(g, invar_iff, unswitching_candidate, unswitch_iff_clone) ==
  LET proj_false == proj_out(g, invar_iff, 0)
      g1 == dominated_by(g, proj_false, unswitching_candidate)
      proj_true == proj_out(g1, invar_iff, 1)
  IN dominated_by(g1, proj_true, unswitch_iff_clone)

\* "Hardwire the control paths in the loops into if(true) and if(false)".
hardwire(g, invar_iff, unswitching_candidate, unswitch_iff_clone) ==
  LET proj_true == proj_out(g, invar_iff, 1)
      g1 == dominated_by(g, proj_true, unswitching_candidate)
      proj_false == proj_out(g1, invar_iff, 0)
  IN dominated_by(g1, proj_false, unswitch_iff_clone)

\* do_unswitching on loop l when find_unswitching_candidate found a candidate.
\* The result: the new graph and loop tree, and what was done.
do_unswitching(g, lt, l) ==
  LET unswitching_candidate == find_unswitching_candidate(g, lt, l)
      head == head_of(lt, l)
      g0 == IF is_CountedLoop(g, head) /\ g[head].kind # "normal"
            THEN [g EXCEPT ![head].kind = "normal"] ELSE g
      l2 == Len(lt) + 1
      r == create_slow_version_of_loop(g0, l, l2, head, unswitching_candidate)
      invar_iff == r.unswitch_if
      head_clone == r.old_new[head]
      g1 == increment_unswitch_count(r.g, head, head_clone)
      g2 == hoist_casts(g1, invariant_casts(g1, l, unswitching_candidate), invar_iff,
                        r.old_new)
      unswitch_iff_clone == r.old_new[unswitching_candidate]
  IN [g |-> hardwire(g2, invar_iff, unswitching_candidate, unswitch_iff_clone),
      lt |-> Append(lt, [head |-> head_clone]),
      info |-> [did |-> TRUE, loop |-> l, slow |-> l2, head |-> head,
                head_clone |-> head_clone, cand |-> unswitching_candidate,
                cand_clone |-> unswitch_iff_clone, invar_iff |-> invar_iff,
                pre_cnt |-> g[head].cnt, old_new |-> r.old_new,
                first_slow |-> r.first_slow_loop_node_index,
                unique_before |-> unique(g), pre |-> g]]

-----------------------------------------------------------------------------
(* The loop-optimization rounds: the caller asks policy_unswitching and    *)
(* runs do_unswitching when the answer is true (the caller is not part of  *)
(* the unswitching sources: modelled from its contract).                   *)

\* No CloneAssertionPredicateBool object exists.
NoDfs ==
  [stack |-> <<>>, idx_before_cloning |-> 0, found_init |-> FALSE, cached_init |-> 0,
   cached_stride |-> 0, current |-> 0, strategy |-> "none", new_input |-> 0,
   orig |-> <<>>, origin |-> <<>>, result |-> 0]

NoInfo ==
  [did |-> FALSE, loop |-> 0, slow |-> 0, head |-> 0, head_clone |-> 0, cand |-> 0,
   cand_clone |-> 0, invar_iff |-> 0, pre_cnt |-> 0, old_new |-> <<>>,
   first_slow |-> 0, unique_before |-> 0, pre |-> <<>>]

\* The budgets a compilation can be in when the round starts: exhausted, too
\* low to clone a loop, enough for one clone, ample.
Budgets(g) ==
  {Len(g) - 1, Len(g) + 1, Len(g) + 2 * Cardinality(body(g, 1)), 4 * Len(g)}

Init ==
  /\ \E h \in HeadKinds, max \in 0..MaxUnswitchMax, segs \in SegSeqs :
       \E cnt \in {0, max} : nodes = LoopGraph(h, cnt, max, segs)
  /\ loops = <<[head |-> HeadIdx]>>
  /\ \E f \in {<<TRUE, FALSE>>, <<TRUE, TRUE>>, <<FALSE, FALSE>>}, b \in Budgets(nodes) :
       /\ f # <<TRUE, FALSE>> => b \in {Len(nodes) - 1, 4 * Len(nodes)}
       /\ nodes[HeadIdx].op # "Loop" => f = <<TRUE, FALSE>>
       /\ (~is_Loop(nodes, HeadIdx) \/ nodes[HeadIdx].uo) => b = 4 * Len(nodes)
       /\ env = [LoopUnswitching |-> f[1], debug |-> f[2], budget |-> b]
  /\ pc = "idle"
  /\ cur = 0
  /\ res = "none"
  /\ seen = 0
  /\ last = NoInfo
  /\ dfs = NoDfs

\* The caller evaluates policy_unswitching for loop l.
PolicyUnswitching(l) ==
  /\ pc = "idle"
  /\ cur' = l
  /\ res' = policy_unswitching(nodes, loops, env, l)
  /\ seen' = IF is_Loop(nodes, head_of(loops, l))
             THEN find_unswitching_candidate(nodes, loops, l) ELSE 0
  /\ pc' = IF res' = "assert" THEN "aborted" ELSE "decided"
  /\ UNCHANGED <<nodes, loops, env, last, dfs>>

\* policy_unswitching returned true: the caller unswitches the loop.  Without a
\* candidate the assertion "should be at least one" fails.
DoUnswitching ==
  /\ pc = "decided"
  /\ res = "true"
  /\ Len(loops) < MaxLoops
  /\ IF find_unswitching_candidate(nodes, loops, cur) = 0
     THEN /\ pc' = "aborted"
          /\ last' = [NoInfo EXCEPT !.loop = cur]
          /\ UNCHANGED <<nodes, loops>>
     ELSE LET r == do_unswitching(nodes, loops, cur)
          IN /\ nodes' = r.g
             /\ loops' = r.lt
             /\ last' = r.info
             /\ pc' = "idle"
  /\ UNCHANGED <<env, cur, res, seen, dfs>>

\* policy_unswitching returned false: the caller leaves the loop alone.
SkipUnswitching ==
  /\ pc = "decided"
  /\ res = "false"
  /\ pc' = "idle"
  /\ UNCHANGED <<nodes, loops, env, cur, res, seen, last, dfs>>

Next ==
  \/ \E l \in 1..Len(loops) : PolicyUnswitching(l)
  \/ DoUnswitching
  \/ SkipUnswitching

Spec == Init /\ [][Next]_vars

-----------------------------------------------------------------------------
(* Properties of the unswitching rounds *)

\* The round is right after a do_unswitching: 'last' describes it.
JustUnswitched == pc = "idle" /\ res = "true" /\ last.did

\* The round is right after policy_unswitching returned for loop cur.
PolicyReturned == pc = "decided" /\ res \in {"true", "false"}

LoopHeads == {n \in 1..Len(nodes) : is_Loop(nodes, n)}

\* C1: after do_unswitching on a loop whose head had unswitch_count = c, the
\* head of the original (fast) loop and the head of the cloned (slow) loop both
\* have unswitch_count = c + 1; and no loop head ever has unswitch_count >
\* unswitch_max.
C1_UnswitchCount ==
  /\ JustUnswitched =>
       /\ nodes[last.head].cnt = last.pre_cnt + 1
       /\ nodes[last.head_clone].cnt = last.pre_cnt + 1
       /\ last.head # last.head_clone
  /\ \A n \in LoopHeads : nodes[n].cnt <= nodes[n].max

\* A loop was unswitched twice: both heads of the second unswitching are at the cap.
C1_Witness ==
  /\ JustUnswitched
  /\ last.pre_cnt = 1
  /\ nodes[last.head].cnt = 2 /\ nodes[last.head_clone].cnt = 2
  /\ nodes[last.head].max = 2

\* C2: policy_unswitching returns false for every loop whose head has
\* unswitch_count + 1 > unswitch_max, whether or not find_unswitching_candidate
\* finds a candidate for it.
C2_CountCap ==
  (/\ PolicyReturned
   /\ is_Loop(nodes, head_of(loops, cur))
   /\ nodes[head_of(loops, cur)].cnt + 1 > nodes[head_of(loops, cur)].max)
  => res = "false"

\* The policy rejected a loop at its cap that has a candidate, is no
\* unroll-only loop and has the nodes to be cloned.
C2_Witness ==
  /\ PolicyReturned /\ res = "false"
  /\ env.LoopUnswitching
  /\ is_Loop(nodes, head_of(loops, cur))
  /\ ~nodes[head_of(loops, cur)].uo
  /\ nodes[head_of(loops, cur)].cnt = nodes[head_of(loops, cur)].max
  /\ nodes[head_of(loops, cur)].max > 0
  /\ find_unswitching_candidate(nodes, loops, cur) # 0
  /\ may_require_nodes(nodes, env, est_loop_clone_sz(nodes, cur, 2))

\* policy_unswitching was called for loop cur with the node budget exhausted.
CalledWithBudgetExhausted ==
  /\ pc \in {"decided", "aborted"}
  /\ res \in {"true", "false", "assert"}
  /\ exceeding_node_budget(nodes, env, 0)

RECURSIVE idom_walk(_, _, _)
idom_walk(g, head, n) ==
  IF n = head \/ n = 0 THEN <<>> ELSE <<n>> \o idom_walk(g, head, g[n].idom)

WalkOf(l) ==
  idom_walk(nodes, head_of(loops, l), In(nodes, head_of(loops, l), LoopBackControl))

\* iff is a test over a loop-invariant Bool over a Cmp.
InvariantTest(l, iff) ==
  /\ iff # 0
  /\ nodes[iff].op \in {"If", "RangeCheck", "ParsePredicate"}
  /\ In(nodes, iff, 1) # 0
  /\ nodes[In(nodes, iff, 1)].op = "Bool"
  /\ In(nodes, In(nodes, iff, 1), 1) # 0
  /\ nodes[In(nodes, In(nodes, iff, 1), 1)].op \in {"CmpI", "CmpU", "CmpL", "CmpUL"}
  /\ nodes[In(nodes, iff, 1)].loop # l

\* Position i of the walk of loop l is a Region whose immediate dominator
\* qualifies as unswitching candidate.
QualifiesAt(l, i) ==
  LET n == WalkOf(l)[i]
  IN /\ nodes[n].op \in {"Region", "Loop", "CountedLoop"}
     /\ InvariantTest(l, nodes[n].idom)
     /\ ~is_loop_exit(nodes, l, nodes[n].idom)

\* Every invariant test inside loop l exits the loop.
EveryInvariantTestExits(l) ==
  \A iff \in body(nodes, l) : InvariantTest(l, iff) => is_loop_exit(nodes, l, iff)

\* C4: find_unswitching_candidate only returns an If that is the immediate
\* dominator of a Region met on the immediate-dominator walk from the back-edge
\* control to the head, tests a loop-invariant Bool over a Cmp and is no loop
\* exit; when every invariant test of the loop exits the loop it returns null
\* and policy_unswitching returns false.
C4_CandidateQualifies ==
  (PolicyReturned /\ is_Loop(nodes, head_of(loops, cur))) =>
    /\ seen = find_unswitching_candidate(nodes, loops, cur)
    /\ seen # 0 => \E i \in 1..Len(WalkOf(cur)) :
                     QualifiesAt(cur, i) /\ nodes[WalkOf(cur)[i]].idom = seen
    /\ EveryInvariantTestExits(cur) => seen = 0 /\ res = "false"

\* A candidate was returned for a loop that also has a test over a Bool computed
\* inside the loop.
C4_Witness ==
  /\ PolicyReturned /\ seen # 0
  /\ \E i \in 1..Len(WalkOf(cur)) :
       /\ nodes[WalkOf(cur)[i]].op = "Region"
       /\ nodes[nodes[WalkOf(cur)[i]].idom].op = "If"
       /\ nodes[In(nodes, nodes[WalkOf(cur)[i]].idom, 1)].op = "Bool"
       /\ nodes[In(nodes, nodes[WalkOf(cur)[i]].idom, 1)].loop = cur

\* Null for a loop whose only invariant tests are loop exits.
C4_WitnessAllExit ==
  /\ PolicyReturned /\ seen = 0 /\ res = "false"
  /\ env.LoopUnswitching /\ is_Loop(nodes, head_of(loops, cur))
  /\ EveryInvariantTestExits(cur)
  /\ \E iff \in body(nodes, cur) : InvariantTest(cur, iff)

\* C5: when several branches of a loop qualify, find_unswitching_candidate
\* returns the one closest to the loop head: the last qualifying If on the upward
\* walk from the back-edge control to the head.
C5_LastMatchWins ==
  (PolicyReturned /\ is_Loop(nodes, head_of(loops, cur))) =>
    \A i \in 1..Len(WalkOf(cur)) :
      (QualifiesAt(cur, i) /\ \A j \in (i + 1)..Len(WalkOf(cur)) : ~QualifiesAt(cur, j))
      => seen = nodes[WalkOf(cur)[i]].idom

\* Two branches of the loop qualify and the one returned is not the first met.
C5_Witness ==
  /\ PolicyReturned /\ seen # 0
  /\ \E i, j \in 1..Len(WalkOf(cur)) :
       /\ i < j
       /\ QualifiesAt(cur, i) /\ QualifiesAt(cur, j)
       /\ nodes[WalkOf(cur)[j]].idom = seen
       /\ nodes[WalkOf(cur)[i]].idom # seen

\* C6: do_unswitching is never executed for a loop for which policy_unswitching
\* returned false on the same graph state; when it runs after policy_unswitching
\* returned true on the unchanged graph, its own find_unswitching_candidate
\* returns the same non-null If and the assertion "should be at least one" holds.
C6_OnlyAfterPolicyTrue ==
  /\ [](pc = "aborted" => res = "assert")
  /\ [](JustUnswitched => last.loop = cur /\ last.cand # 0 /\ last.cand = seen)
  /\ [][(nodes' # nodes \/ last' # last) =>
          /\ pc = "decided" /\ res = "true"
          /\ policy_unswitching(nodes, loops, env, cur) = "true"
          /\ find_unswitching_candidate(nodes, loops, cur) = seen
          /\ seen # 0]_vars

\* do_unswitching ran on a loop the policy accepted, on the candidate the policy saw.
C6_Witness ==
  /\ JustUnswitched
  /\ last.cand = seen /\ seen # 0
  /\ nodes[last.cand].loop = cur
  /\ Len(nodes) > last.unique_before

\* C7: after do_unswitching the candidate in the original (fast) loop is
\* hardwired to the true projection of the selector (its test is the constant
\* 1), and its clone in the slow loop to the false projection (its test is the
\* constant 0); the fast loop is entered from the true projection and the slow
\* loop from the false projection.
C7_Hardwired ==
  JustUnswitched =>
    /\ is_ConI(nodes, In(nodes, last.cand, 1))
    /\ nodes[In(nodes, last.cand, 1)].val = 1
    /\ is_ConI(nodes, In(nodes, last.cand_clone, 1))
    /\ nodes[In(nodes, last.cand_clone, 1)].val = 0
    /\ nodes[last.cand].loop = last.loop
    /\ nodes[last.cand_clone].loop = last.slow
    /\ In(nodes, last.head, EntryControl) = proj_out(nodes, last.invar_iff, 1)
    /\ In(nodes, last.head_clone, EntryControl) = proj_out(nodes, last.invar_iff, 0)
    /\ is_IfTrue(nodes, In(nodes, last.head, EntryControl))
    /\ is_IfFalse(nodes, In(nodes, last.head_clone, EntryControl))

\* A loop was unswitched: the selector tests the Bool the candidate tested, the
\* candidate and its clone test constants.
C7_Witness ==
  /\ JustUnswitched
  /\ is_Bool(nodes, In(nodes, last.invar_iff, 1))
  /\ nodes[In(nodes, last.cand, 1)].val = 1
  /\ nodes[In(nodes, last.cand_clone, 1)].val = 0
  /\ last.cand # last.cand_clone

-----------------------------------------------------------------------------
(* Template Assertion Predicate bools and their transformation by a        *)
(* depth-first pass (CloneAssertionPredicateBool).                          *)

MaxExpr == 2          \* nodes between the leaves and the Cmp of a template bool

\* The nodes below every template bool, after those of BaseGraph.
OpaqueInitIdx == Len(BaseGraph) + 1     \* OpaqueLoopInit(init)
OpaqueStrideIdx == Len(BaseGraph) + 2   \* OpaqueLoopStride(stride)
RangeIdx == Len(BaseGraph) + 3          \* the range the expression is compared with

\* AssertionPredicateBoolOpcodes::is_valid.
is_valid(g, n) ==
  /\ n # 0
  /\ \/ g[n].op = "OpaqueLoopInit"
     \/ g[n].op = "OpaqueLoopStride"
     \/ is_Bool(g, n)
     \/ is_Cmp(g, n)
     \/ g[n].op \in {"AndL", "OrL", "RShiftL", "LShiftL", "LShiftI", "AddL", "AddI",
                     "MulL", "MulI", "SubL", "SubI", "ConvI2L", "CastII"}

is_OpaqueLoopInit(g, n) == n # 0 /\ g[n].op = "OpaqueLoopInit"
is_OpaqueLoopStride(g, n) == n # 0 /\ g[n].op = "OpaqueLoopStride"
is_Opaque1(g, n) ==
  n # 0 /\ g[n].op \in {"Opaque1", "OpaqueLoopInit", "OpaqueLoopStride"}

\* The graph below a template bool: the init value (Parm), the stride (ConI 1),
\* the two OpaqueLoop* nodes and the range.
ExprBase ==
  BaseGraph \o << NewNode("OpaqueLoopInit", <<0, ParmIdx>>, 0, 0),
                  NewNode("OpaqueLoopStride", <<0, Con1Idx>>, 0, 0),
                  NewNode("LoadRange", <<0, ParmIdx>>, 0, 0) >>

\* The nodes that can be appended to g as the next node of an expression.
ExprNodes(g) ==
  LET avail == {ParmIdx, OpaqueInitIdx, OpaqueStrideIdx} \cup (RangeIdx + 1)..Len(g)
  IN {NewNode("AddI", <<0, a, b>>, 0, 0) : a \in avail, b \in avail}
     \cup {NewNode("CastII", <<EntryIdx, a>>, 0, 0) : a \in avail}

RECURSIVE ExprGraphs(_)
ExprGraphs(k) ==
  IF k = 0 THEN {ExprBase}
  ELSE {Append(g, n) : <<g, n>> \in
          UNION {{<<h, m>> : m \in ExprNodes(h)} : h \in ExprGraphs(k - 1)}}

\* Bool(CmpU(expression, range)) on top of g; the Bool is the last node.
WithBool(g) ==
  LET top == IF Len(g) = RangeIdx THEN OpaqueInitIdx ELSE Len(g)
      g1 == Append(g, NewNode("CmpU", <<0, top, RangeIdx>>, 0, 0))
  IN Append(g1, NewNode("Bool", <<0, Len(g1)>>, 0, 0))

\* The nodes reached from n over inputs 1.. that are valid opcodes: the nodes the
\* depth-first pass visits.
RECURSIVE ExprReach(_, _)
ExprReach(g, n) ==
  IF ~is_valid(g, n) THEN {}
  ELSE {n} \cup UNION {ExprReach(g, In(g, n, i)) : i \in 1..(req(g, n) - 1)}

\* The template bools with up to k nodes between the leaves and the Cmp: every
\* node of the expression is used, and the OpaqueLoopInit node is part of it.
TemplateBools(k) ==
  {g \in {WithBool(h) : h \in UNION {ExprGraphs(j) : j \in 0..k}} :
     LET reach == ExprReach(g, Len(g))
     IN OpaqueInitIdx \in reach /\ (RangeIdx + 1)..Len(g) \subseteq reach}

-----------------------------------------------------------------------------
(* DFSStack *)

DFSStack(template_bool) == <<[node |-> template_bool, index |-> 1]>>

top(stack) == stack[Len(stack)].node

index_to_previously_visited_parent(stack) == stack[Len(stack)].index

is_not_empty(stack) == Len(stack) > 0

pop(stack) == SubSeq(stack, 1, Len(stack) - 1)

increment_input_index(stack) ==
  [stack EXCEPT ![Len(stack)].index = stack[Len(stack)].index + 1]

replace_top_with(stack, node) == [stack EXCEPT ![Len(stack)].node = node]

\* The index push_next_unvisited_input stops at: the first input of the top
\* node, from the stored index on, that is a valid opcode; 0 if there is none.
next_unvisited_input(g, stack) ==
  LET current == top(stack)
      found == {index \in index_to_previously_visited_parent(stack)..(req(g, current) - 1) :
                  is_valid(g, In(g, current, index))}
  IN IF found = {} THEN 0 ELSE CHOOSE index \in found : \A other \in found : index <= other

\* DFSStack::push_next_unvisited_input when it returns true.
push_next_unvisited_input(g, stack) ==
  LET index == next_unvisited_input(g, stack)
  IN Append([stack EXCEPT ![Len(stack)].index = index],
            [node |-> In(g, top(stack), index), index |-> 1])

-----------------------------------------------------------------------------
(* CloneAssertionPredicateBool and the strategies to transform OpaqueLoop*  *)
(* nodes.  The operators take the graph g and the object d and give the new *)
(* graph and object as [g, d].                                              *)

\* The input a CloneWithNewOpaqueInitInput strategy gives to the new OpaqueLoopInit.
NewOpaqueInitInput == Con0Idx

Strategies == {"CloneOpaqueLoopNodes", "CloneWithNewOpaqueInitInput", "RemoveOpaqueLoopNodes"}

\* PhaseIdealLoop::clone_and_register(n, ctrl): a copy of n with the next free
\* index ('origin' remembers what it is a copy of).
clone_and_register(g, d, n) ==
  [g |-> Append(g, g[n]), d |-> [d EXCEPT !.origin = Append(d.origin, n)]]

\* clone_init that does not look into the cache.
clone_init_M26(g, d, opaque_init) ==
  LET r == clone_and_register(g, d, opaque_init)
  IN [g |-> r.g, d |-> [r.d EXCEPT !.cached_init = unique(g)], node |-> unique(g)]

\* CachedOpaqueLoopNodes::clone_init: [g, d, node].
clone_init(g, d, opaque_init) ==
  IF d.cached_init = 0
  THEN LET r == clone_and_register(g, d, opaque_init)
       IN [g |-> r.g, d |-> [r.d EXCEPT !.cached_init = unique(g)], node |-> unique(g)]
  ELSE [g |-> g, d |-> d, node |-> d.cached_init]

\* CachedOpaqueLoopNodes::clone_stride: [g, d, node].
clone_stride(g, d, opaque_stride) ==
  IF d.cached_stride = 0
  THEN LET r == clone_and_register(g, d, opaque_stride)
       IN [g |-> r.g, d |-> [r.d EXCEPT !.cached_stride = unique(g)], node |-> unique(g)]
  ELSE [g |-> g, d |-> d, node |-> d.cached_stride]

\* transform_opaque_init in which the new OpaqueLoopInit keeps the old input.
transform_opaque_init_M29(g, d, opaque_init) ==
  CASE d.strategy = "RemoveOpaqueLoopNodes" -> [g |-> g, d |-> d, node |-> In(g, opaque_init, 1)]
    [] OTHER -> clone_init(g, d, opaque_init)

\* transform_opaque_init of the three strategies: [g, d, node].
transform_opaque_init(g, d, opaque_init) ==
  CASE d.strategy = "CloneOpaqueLoopNodes" -> clone_init(g, d, opaque_init)
    [] d.strategy = "CloneWithNewOpaqueInitInput" ->
         LET r == clone_init(g, d, opaque_init)
         IN [r EXCEPT !.g = set_req(r.g, r.node, 1, d.new_input)]
    [] OTHER -> [g |-> g, d |-> d, node |-> In(g, opaque_init, 1)]

\* transform_opaque_stride with a stride that stays an OpaqueLoopStride node.
transform_opaque_stride_M9(g, d, opaque_stride) ==
  clone_stride(g, d, opaque_stride)

\* transform_opaque_stride of the three strategies: [g, d, node].
transform_opaque_stride(g, d, opaque_stride) ==
  CASE d.strategy = "CloneOpaqueLoopNodes" -> clone_stride(g, d, opaque_stride)
    [] d.strategy = "CloneWithNewOpaqueInitInput" -> clone_stride(g, d, opaque_stride)
    [] OTHER -> [g |-> g, d |-> d, node |-> In(g, opaque_stride, 1)]

\* CloneAssertionPredicateBool::transform_opaque_loop_node: [g, d, node].
transform_opaque_loop_node(g, d, opaque_loop_node) ==
  IF is_OpaqueLoopInit(g, opaque_loop_node)
  THEN transform_opaque_init(g, [d EXCEPT !.found_init = TRUE], opaque_loop_node)
  ELSE transform_opaque_stride(g, d, opaque_loop_node)

\* must_clone_top_node that never asks for a clone.
must_clone_top_node_M27(g, d, previously_visited_parent) == FALSE

must_clone_top_node(g, d, previously_visited_parent) ==
  LET child_of_last_visited_parent == top(d.stack)
  IN /\ child_of_last_visited_parent < d.idx_before_cloning
     /\ In(g, child_of_last_visited_parent, index_to_previously_visited_parent(d.stack))
          # previously_visited_parent

clone_top_node(g, d, previously_visited_parent) ==
  LET child_of_last_visited_parent == top(d.stack)
      r == clone_and_register(g, d, child_of_last_visited_parent)
      clone == unique(g)
  IN [g |-> set_req(r.g, clone, index_to_previously_visited_parent(d.stack),
                    previously_visited_parent),
      d |-> [r.d EXCEPT !.stack = replace_top_with(d.stack, clone)]]

set_req_of_clone_to_parent(g, d, parent) ==
  [g |-> set_req(g, top(d.stack), index_to_previously_visited_parent(d.stack), parent),
   d |-> d]

is_cloned_node(d, node) == node >= d.idx_before_cloning

rewire_top_node_to(g, d, previously_visited_parent) ==
  [g |-> set_req(g, top(d.stack), index_to_previously_visited_parent(d.stack),
                 previously_visited_parent),
   d |-> d]

\* pop_opaque_loop_node; a debug build asserts that the stack is not empty
\* (d.stack = <<>> with d.current = 0 stands for the failed assertion).
pop_opaque_loop_node(g, d, transformed_opaque_loop_node) ==
  LET d1 == [d EXCEPT !.stack = pop(d.stack)]
  IN IF ~is_not_empty(d1.stack) THEN [g |-> g, d |-> [d1 EXCEPT !.current = 0]]
     ELSE LET r == IF must_clone_top_node(g, d1, transformed_opaque_loop_node)
                   THEN clone_top_node(g, d1, transformed_opaque_loop_node)
                   ELSE set_req_of_clone_to_parent(g, d1, transformed_opaque_loop_node)
          IN [r EXCEPT !.d.stack = increment_input_index(r.d.stack)]

\* pop_node that neither clones the new top node nor rewires it.
pop_node_M28(g, d, previously_visited_parent) ==
  LET d1 == [d EXCEPT !.stack = pop(d.stack)]
  IN IF is_not_empty(d1.stack)
     THEN [g |-> g, d |-> [d1 EXCEPT !.stack = increment_input_index(d1.stack)]]
     ELSE [g |-> g, d |-> d1]

\* pop_node in which a cloned child is never wired to a parent cloned before.
pop_node_M8(g, d, previously_visited_parent) ==
  LET d1 == [d EXCEPT !.stack = pop(d.stack)]
  IN IF is_not_empty(d1.stack)
     THEN LET r == IF must_clone_top_node(g, d1, previously_visited_parent)
                   THEN clone_top_node(g, d1, previously_visited_parent)
                   ELSE [g |-> g, d |-> d1]
          IN [r EXCEPT !.d.stack = increment_input_index(r.d.stack)]
     ELSE [g |-> g, d |-> d1]

pop_node(g, d, previously_visited_parent) ==
  LET d1 == [d EXCEPT !.stack = pop(d.stack)]
  IN IF is_not_empty(d1.stack)
     THEN LET r == IF must_clone_top_node(g, d1, previously_visited_parent)
                   THEN clone_top_node(g, d1, previously_visited_parent)
                   ELSE IF is_cloned_node(d1, previously_visited_parent)
                   THEN rewire_top_node_to(g, d1, previously_visited_parent)
                   ELSE [g |-> g, d |-> d1]
          IN [r EXCEPT !.d.stack = increment_input_index(r.d.stack)]
     ELSE [g |-> g, d |-> d1]

\* The constructor of CloneAssertionPredicateBool with the strategy it is used with.
CloneAssertionPredicateBool(g, template_bool, strategy) ==
  [NoDfs EXCEPT !.stack = DFSStack(template_bool),
                !.idx_before_cloning = unique(g),
                !.strategy = strategy,
                !.new_input = IF strategy = "CloneWithNewOpaqueInitInput"
                              THEN NewOpaqueInitInput ELSE 0,
                !.orig = g]

-----------------------------------------------------------------------------
(* The pass over one template bool: CloneAssertionPredicateBool::clone, one *)
(* action per branch of its loop.                                           *)

InitBool ==
  /\ nodes \in TemplateBools(MaxExpr)
  /\ cur = Len(nodes)
  /\ loops = <<>>
  /\ \E debug \in BOOLEAN :
       env = [LoopUnswitching |-> TRUE, debug |-> debug, budget |-> 4 * Len(nodes)]
  /\ pc = "template"
  /\ res = "none"
  /\ seen = 0
  /\ last = NoInfo
  /\ dfs = NoDfs

\* TemplateAssertionPredicateBool::clone, clone_update_opaque_init or
\* clone_remove_opaque_loop_nodes creates the strategy and the
\* CloneAssertionPredicateBool object for the template bool cur.
NewCloneAssertionPredicateBool(strategy) ==
  /\ pc = "template"
  /\ dfs' = CloneAssertionPredicateBool(nodes, cur, strategy)
  /\ pc' = "dfs"
  /\ UNCHANGED <<nodes, loops, env, cur, res, seen, last>>

\* The top of the stack is an OpaqueLoop* node: it is transformed and popped.
CloneTransformOpaque ==
  /\ pc = "dfs"
  /\ is_not_empty(dfs.stack)
  /\ is_Opaque1(nodes, top(dfs.stack))
  /\ LET current == top(dfs.stack)
         t == transform_opaque_loop_node(nodes, [dfs EXCEPT !.current = current], current)
         r == pop_opaque_loop_node(t.g, t.d, t.node)
     IN /\ nodes' = r.g
        /\ dfs' = r.d
        /\ pc' = IF env.debug /\ r.d.current = 0 THEN "aborted" ELSE "dfs"
  /\ UNCHANGED <<loops, env, cur, res, seen, last>>

\* The top of the stack has an unvisited input: it is pushed.
ClonePushInput ==
  /\ pc = "dfs"
  /\ is_not_empty(dfs.stack)
  /\ ~is_Opaque1(nodes, top(dfs.stack))
  /\ next_unvisited_input(nodes, dfs.stack) # 0
  /\ dfs' = [dfs EXCEPT !.current = top(dfs.stack),
                        !.stack = push_next_unvisited_input(nodes, dfs.stack)]
  /\ UNCHANGED <<nodes, loops, env, pc, cur, res, seen, last>>

\* All inputs of the top of the stack are visited: it is popped.
ClonePopNode ==
  /\ pc = "dfs"
  /\ is_not_empty(dfs.stack)
  /\ ~is_Opaque1(nodes, top(dfs.stack))
  /\ next_unvisited_input(nodes, dfs.stack) = 0
  /\ LET current == top(dfs.stack)
         r == pop_node(nodes, [dfs EXCEPT !.current = current], current)
     IN /\ nodes' = r.g
        /\ dfs' = r.d
  /\ UNCHANGED <<loops, env, pc, cur, res, seen, last>>

\* The stack is empty: clone() returns the node visited last, after the two
\* assertions of a debug build.
CloneReturn ==
  /\ pc = "dfs"
  /\ ~is_not_empty(dfs.stack)
  /\ IF env.debug /\ ~(/\ is_Bool(nodes, dfs.current)
                       /\ dfs.current >= dfs.idx_before_cloning
                       /\ dfs.found_init)
     THEN pc' = "aborted" /\ dfs' = dfs
     ELSE pc' = "cloned" /\ dfs' = [dfs EXCEPT !.result = dfs.current]
  /\ UNCHANGED <<nodes, loops, env, cur, res, seen, last>>

UpdateOpaqueStrideInput_visit_M37(g, opaque_stride, new_opaque_stride_input) ==
  set_req(g, opaque_stride, 0, new_opaque_stride_input)

\* UpdateOpaqueStrideInput::visit.
UpdateOpaqueStrideInput_visit(g, opaque_stride, new_opaque_stride_input) ==
  set_req(g, opaque_stride, 1, new_opaque_stride_input)

\* OpaqueLoopStrideNodes::pop_visited_node.
pop_visited_node(stack) ==
  IF is_not_empty(pop(stack)) THEN increment_input_index(pop(stack)) ELSE pop(stack)

\* TemplateAssertionPredicateBool::update_opaque_stride creates the visitor and
\* the OpaqueLoopStrideNodes object for the template bool cur.
NewOpaqueLoopStrideNodes ==
  /\ pc = "template"
  /\ dfs' = [NoDfs EXCEPT !.stack = DFSStack(cur),
                          !.idx_before_cloning = unique(nodes),
                          !.strategy = "UpdateOpaqueStrideInput",
                          !.new_input = Con0Idx,
                          !.orig = nodes]
  /\ pc' = "find"
  /\ UNCHANGED <<nodes, loops, env, cur, res, seen, last>>

\* findAndVisit: the top of the stack is an OpaqueLoopStride node; it is visited
\* and popped.
FindVisitStride ==
  /\ pc = "find"
  /\ is_not_empty(dfs.stack)
  /\ is_OpaqueLoopStride(nodes, top(dfs.stack))
  /\ nodes' = UpdateOpaqueStrideInput_visit(nodes, top(dfs.stack), dfs.new_input)
  /\ dfs' = [dfs EXCEPT !.current = top(dfs.stack), !.stack = pop_visited_node(dfs.stack)]
  /\ UNCHANGED <<loops, env, pc, cur, res, seen, last>>

\* findAndVisit: the top of the stack has an unvisited input; it is pushed.
FindPushInput ==
  /\ pc = "find"
  /\ is_not_empty(dfs.stack)
  /\ ~is_OpaqueLoopStride(nodes, top(dfs.stack))
  /\ next_unvisited_input(nodes, dfs.stack) # 0
  /\ dfs' = [dfs EXCEPT !.current = top(dfs.stack),
                        !.stack = push_next_unvisited_input(nodes, dfs.stack)]
  /\ UNCHANGED <<nodes, loops, env, pc, cur, res, seen, last>>

\* findAndVisit: all inputs of the top of the stack are visited; it is popped.
FindPopVisitedNode ==
  /\ pc = "find"
  /\ is_not_empty(dfs.stack)
  /\ ~is_OpaqueLoopStride(nodes, top(dfs.stack))
  /\ next_unvisited_input(nodes, dfs.stack) = 0
  /\ dfs' = [dfs EXCEPT !.current = top(dfs.stack), !.stack = pop_visited_node(dfs.stack)]
  /\ UNCHANGED <<nodes, loops, env, pc, cur, res, seen, last>>

\* findAndVisit: the stack is empty; the loop ends.
FindReturn ==
  /\ pc = "find"
  /\ ~is_not_empty(dfs.stack)
  /\ pc' = "visited"
  /\ UNCHANGED <<nodes, loops, env, cur, res, seen, last, dfs>>

NextBool ==
  \/ \E strategy \in Strategies : NewCloneAssertionPredicateBool(strategy)
  \/ CloneTransformOpaque
  \/ ClonePushInput
  \/ ClonePopNode
  \/ CloneReturn
  \/ NewOpaqueLoopStrideNodes
  \/ FindVisitStride
  \/ FindPushInput
  \/ FindPopVisitedNode
  \/ FindReturn

SpecBool == InitBool /\ [][NextBool]_vars

\* The loops of clone() and of findAndVisit() run without interruption until
\* their condition fails.
SpecBoolLive == SpecBool /\ WF_vars(NextBool)

-----------------------------------------------------------------------------
(* Properties of the pass over a template bool *)

\* clone() returned for the given strategy.
Cloned(strategy) == pc = "cloned" /\ dfs.strategy = strategy

\* The nodes of the original expression of the template bool.
OrigExpr == ExprReach(dfs.orig, cur)

\* n has a path to an OpaqueLoopInit or OpaqueLoopStride leaf in the original expression.
HasPathToOpaque(n) ==
  \E m \in ExprReach(dfs.orig, n) :
    dfs.orig[m].op \in {"OpaqueLoopInit", "OpaqueLoopStride"}

\* The nodes the new Bool references, directly or over other nodes.
RECURSIVE InputsClosure(_, _)
InputsClosure(g, n) ==
  IF n = 0 THEN {}
  ELSE {n} \cup UNION {InputsClosure(g, In(g, n, i)) : i \in 1..(req(g, n) - 1)}

\* The nodes created during the pass, and those of them that are copies of n.
CreatedNodes == dfs.idx_before_cloning..Len(nodes)
CopiesOf(n) == {m \in CreatedNodes : dfs.origin[m - dfs.idx_before_cloning + 1] = n}

\* C8: after cloning a template bool with the clone-only strategy
\* (TemplateAssertionPredicateBool::clone), every node of the original
\* expression without a path to an OpaqueLoop* leaf is referenced by the new
\* Bool and not duplicated, and every node with such a path, the Bool root
\* included, is replaced by a node created during the pass.
C8_CloneSharesUnrelated ==
  Cloned("CloneOpaqueLoopNodes") =>
    /\ dfs.result \in CreatedNodes
    /\ is_Bool(nodes, dfs.result)
    /\ \A n \in 1..Len(dfs.orig) : nodes[n] = dfs.orig[n]
    /\ \A n \in OrigExpr :
         IF HasPathToOpaque(n)
         THEN /\ n \notin InputsClosure(nodes, dfs.result)
              /\ CopiesOf(n) # {}
              /\ \E m \in CopiesOf(n) : m \in InputsClosure(nodes, dfs.result)
         ELSE /\ n \in InputsClosure(nodes, dfs.result)
              /\ CopiesOf(n) = {}

\* A cloned expression in which a created AddI node has a created OpaqueLoopInit
\* node as one input and an original node without a path to an opaque leaf as
\* the other.
C8_Witness ==
  /\ Cloned("CloneOpaqueLoopNodes")
  /\ \E n \in OrigExpr, m \in CreatedNodes :
       /\ ~HasPathToOpaque(n)
       /\ nodes[m].op = "AddI"
       /\ In(nodes, m, 2) = n
       /\ In(nodes, m, 1) \in CreatedNodes
       /\ is_OpaqueLoopInit(nodes, In(nodes, m, 1))
       /\ m \in InputsClosure(nodes, dfs.result)

\* The expression at n of graph g is the expression at o of the original graph
\* with every OpaqueLoop* leaf replaced by its input 1.
RECURSIVE SameWithoutOpaque(_, _, _)
SameWithoutOpaque(g, n, o) ==
  IF is_Opaque1(dfs.orig, o) THEN n = In(dfs.orig, o, 1)
  ELSE IF ~is_valid(dfs.orig, o) THEN n = o
  ELSE /\ n # 0
       /\ g[n].op = dfs.orig[o].op
       /\ req(g, n) = req(dfs.orig, o)
       /\ In(g, n, 0) = In(dfs.orig, o, 0)
       /\ \A i \in 1..(req(g, n) - 1) :
            SameWithoutOpaque(g, In(g, n, i), In(dfs.orig, o, i))

\* C9: clone_remove_opaque_loop_nodes returns a Bool expression structurally
\* identical to the original with every OpaqueLoopInit/OpaqueLoopStride leaf
\* replaced by that leaf's input 1; no OpaqueLoop* node is reachable from the
\* result through the expression nodes.
C9_RemoveOpaque ==
  Cloned("RemoveOpaqueLoopNodes") =>
    /\ is_Bool(nodes, dfs.result)
    /\ dfs.result # cur
    /\ SameWithoutOpaque(nodes, dfs.result, cur)
    /\ \A n \in ExprReach(nodes, dfs.result) : ~is_Opaque1(nodes, n)
    /\ \A n \in 1..Len(dfs.orig) : nodes[n] = dfs.orig[n]

\* An expression with both OpaqueLoop* leaves went through the pass.
C9_Witness ==
  /\ Cloned("RemoveOpaqueLoopNodes")
  /\ OpaqueInitIdx \in OrigExpr /\ OpaqueStrideIdx \in OrigExpr
  /\ ParmIdx \in InputsClosure(nodes, dfs.result)
  /\ Con1Idx \in InputsClosure(nodes, dfs.result)

-----------------------------------------------------------------------------
(* Predicates above a loop head and their classification *)

MaxPreds == 2         \* predicates between the entry and the loop head

\* The nodes below every predicate chain, after those of BaseGraph.
PredBoolIdx == Len(BaseGraph) + 2      \* Bool(CmpU(..)): the test of a check
PredOpaqueIdx == Len(BaseGraph) + 3    \* OpaqueAssertionPredicate(Bool)

PredBase ==
  BaseGraph \o << NewNode("CmpU", <<0, ParmIdx, Con0Idx>>, 0, 0),
                  NewNode("Bool", <<0, Len(BaseGraph) + 1>>, 0, 0),
                  NewNode("OpaqueAssertionPredicate", <<0, Len(BaseGraph) + 2>>, 0, 0) >>

\* What can stand between the entry and a loop head: Parse Predicates, Runtime
\* Predicates (an If or RangeCheck with an uncommon trap of a predicate
\* reason), Template Assertion Predicates, Initialized Assertion
\* Predicates (an If over an OpaqueAssertionPredicate with a Halt), an If with
\* an uncommon trap of another reason, and a zero-trip guard.
PredKinds ==
  {[kind |-> "Parse", op |-> "ParsePredicate", reason |-> "predicate"],
   [kind |-> "Runtime", op |-> "If", reason |-> "loop_limit_check"],
   [kind |-> "Runtime", op |-> "RangeCheck", reason |-> "predicate"],
   [kind |-> "Template", op |-> "TemplateAssertionPredicate", reason |-> "none"],
   [kind |-> "Initialized", op |-> "If", reason |-> "none"],
   [kind |-> "OtherTrap", op |-> "If", reason |-> "unstable_if"],
   [kind |-> "ZeroTripGuard", op |-> "If", reason |-> "none"]}

\* Appends the nodes of predicate k below the control node ctrl: <<graph, tail>>.
AddPred(g, k, ctrl) ==
  LET iff == Len(g) + 1
      test == CASE k.kind = "Parse" -> Con1Idx
                [] k.kind = "Initialized" -> PredOpaqueIdx
                [] OTHER -> PredBoolIdx
      g1 == Append(g, [NewNode(k.op, <<ctrl, test>>, 0, ctrl)
                         EXCEPT !.reason = IF k.kind = "Parse" THEN k.reason ELSE "none",
                                !.ztg = (k.kind = "ZeroTripGuard")])
      g2 == Append(g1, NewNode("IfTrue", <<iff>>, 0, iff))
      g3 == Append(g2, NewNode("IfFalse", <<iff>>, 0, iff))
  IN CASE k.kind = "Template" ->
            <<Append(g, NewNode("TemplateAssertionPredicate",
                                <<ctrl, PredBoolIdx, PredBoolIdx>>, 0, ctrl)), iff>>
       [] k.kind = "Initialized" ->
            <<Append(g3, NewNode("Halt", <<iff + 2>>, 0, iff + 2)), iff + 1>>
       [] k.kind = "ZeroTripGuard" ->
            <<Append(g3, NewNode("Region", <<0, iff + 2>>, 0, iff + 2)), iff + 1>>
       [] OTHER ->
            LET g4 == Append(g3, [NewNode("CallStaticJava", <<iff + 2>>, 0, iff + 2)
                                    EXCEPT !.reason = k.reason])
            IN <<Append(g4, NewNode("Halt", <<iff + 3>>, 0, iff + 3)), iff + 1>>

RECURSIVE AddPreds(_, _, _)
AddPreds(g, ks, ctrl) ==
  IF ks = <<>> THEN <<g, ctrl>>
  ELSE LET r == AddPred(g, Head(ks), ctrl)
       IN AddPreds(r[1], Tail(ks), r[2])

\* The predicates ks from the entry down, and the loop head below them (the
\* last node).
PredGraph(ks) ==
  LET r == AddPreds(PredBase, ks, EntryIdx)
      head == Len(r[1]) + 1
  IN Append(r[1], [NewNode("Loop", <<0, r[2], head>>, 1, r[2]) EXCEPT !.max = 1])

PredSeqs == UNION {[1..k -> PredKinds] : k \in 1..MaxPreds}

-----------------------------------------------------------------------------
(* Node queries used by the classification (node.cpp, multnode.cpp: modelled *)
(* from their contracts).                                                   *)

is_ParsePredicate(g, n) == n # 0 /\ g[n].op = "ParsePredicate"
is_TemplateAssertionPredicate(g, n) == n # 0 /\ g[n].op = "TemplateAssertionPredicate"

\* IfProjNode::other_if_proj: the other projection of the If, 0 if there is none.
other_if_proj(g, proj) == proj_out(g, In(g, proj, 0), IF is_IfTrue(g, proj) THEN 0 ELSE 1)

\* Node::unique_out for a node with one output.
unique_out(g, n) == CHOOSE m \in outs(g, n) : TRUE

\* ProjNode::is_uncommon_trap_if_pattern: the uncommon trap call on the other
\* projection of the If of if_proj, 0 (null) if the If has lost a projection or
\* the other projection does not lead to an uncommon trap.
is_uncommon_trap_if_pattern(g, if_proj) ==
  LET in0 == In(g, if_proj, 0)
      other_proj == other_if_proj(g, if_proj)
  IN IF ~is_If(g, in0) \/ outcnt(g, in0) < 2 \/ other_proj = 0 THEN 0
     ELSE IF outcnt(g, other_proj) = 1
             /\ g[unique_out(g, other_proj)].op = "CallStaticJava"
             /\ g[unique_out(g, other_proj)].reason # "none"
     THEN unique_out(g, other_proj) ELSE 0

-----------------------------------------------------------------------------
(* The classification of a control node *)

\* ParsePredicate::init_parse_predicate: the Parse Predicate node, 0 for nullptr.
init_parse_predicate(g, parse_predicate_proj, deopt_reason) ==
  IF is_IfTrue(g, parse_predicate_proj)
     /\ is_ParsePredicate(g, In(g, parse_predicate_proj, 0))
     /\ g[In(g, parse_predicate_proj, 0)].reason = deopt_reason
  THEN In(g, parse_predicate_proj, 0) ELSE 0

\* The test of PredicateInBlockIterator::for_each for a Parse Predicate
\* success projection.
is_parse_predicate_success_proj(g, entry) ==
  is_IfTrue(g, entry) /\ is_ParsePredicate(g, In(g, entry, 0))

may_be_runtime_predicate_if_M35(g, node) ==
  /\ is_IfProj(g, node)
  /\ g[In(g, node, 0)].op = "If" /\ ~g[In(g, node, 0)].ztg

may_be_runtime_predicate_if(g, node) ==
  /\ is_IfProj(g, node)
  /\ \/ g[In(g, node, 0)].op = "If" /\ ~g[In(g, node, 0)].ztg
     \/ g[In(g, node, 0)].op = "RangeCheck"

\* RuntimePredicate::is_being_folded_without_uncommon_proj that never finds
\* the If being folded.
is_being_folded_without_uncommon_proj_M11(g, success_proj) ==
  LET if_node == In(g, success_proj, 0)
  IN is_ConI(g, In(g, if_node, 1)) /\ outcnt(g, if_node) = 0

is_being_folded_without_uncommon_proj(g, success_proj) ==
  LET if_node == In(g, success_proj, 0)
  IN is_ConI(g, In(g, if_node, 1)) /\ outcnt(g, if_node) = 1

uncommon_trap_reason(g, if_proj) ==
  LET uct_call == is_uncommon_trap_if_pattern(g, if_proj)
  IN IF uct_call = 0 THEN "none" ELSE g[uct_call].reason

\* RuntimePredicate::is_success_proj(Node*).
RuntimePredicate_is_success_proj(g, maybe_success_proj) ==
  IF may_be_runtime_predicate_if(g, maybe_success_proj)
  THEN \/ is_being_folded_without_uncommon_proj(g, maybe_success_proj)
       \/ uncommon_trap_reason(g, maybe_success_proj)
            \in {"loop_limit_check", "predicate", "profile_predicate"}
  ELSE FALSE

\* RuntimePredicate::is_success_proj(Node*, DeoptReason).
RuntimePredicate_is_success_proj_for(g, maybe_success_proj, deopt_reason) ==
  IF may_be_runtime_predicate_if(g, maybe_success_proj)
  THEN \/ is_being_folded_without_uncommon_proj(g, maybe_success_proj)
       \/ deopt_reason = uncommon_trap_reason(g, maybe_success_proj)
  ELSE FALSE

has_opaque_or_con(g, if_node) ==
  LET bool_input == In(g, if_node, 1)
  IN is_ConI(g, bool_input) \/ g[bool_input].op = "OpaqueAssertionPredicate"

has_halt(g, success_proj) ==
  LET other_proj == other_if_proj(g, success_proj)
  IN /\ other_proj # 0
     /\ outcnt(g, other_proj) = 1
     /\ g[unique_out(g, other_proj)].op = "Halt"

\* InitializedAssertionPredicate::is_success_proj without the test for the Halt node.
InitializedAssertionPredicate_is_success_proj_M10(g, success_proj) ==
  IF is_IfTrue(g, success_proj)
  THEN LET if_node == In(g, success_proj, 0)
       IN is_If(g, if_node) /\ outcnt(g, if_node) = 2 /\ has_opaque_or_con(g, if_node)
  ELSE FALSE

\* InitializedAssertionPredicate::is_success_proj.
InitializedAssertionPredicate_is_success_proj(g, success_proj) ==
  IF is_IfTrue(g, success_proj)
  THEN LET if_node == In(g, success_proj, 0)
       IN IF is_If(g, if_node) /\ outcnt(g, if_node) = 2
          THEN has_opaque_or_con(g, if_node) /\ has_halt(g, success_proj)
          ELSE FALSE
  ELSE FALSE

\* The predicate variants that accept the control node n.
variants(g, n) ==
  {v \in {"ParsePredicate", "RuntimePredicate", "TemplateAssertionPredicate",
          "InitializedAssertionPredicate"} :
     \/ v = "ParsePredicate" /\ is_parse_predicate_success_proj(g, n)
     \/ v = "RuntimePredicate" /\ RuntimePredicate_is_success_proj(g, n)
     \/ v = "TemplateAssertionPredicate" /\ is_TemplateAssertionPredicate(g, n)
     \/ v = "InitializedAssertionPredicate"
          /\ InitializedAssertionPredicate_is_success_proj(g, n)}

-----------------------------------------------------------------------------
(* Predicates being folded by IGVN (ifnode.cpp, phaseX.cpp: modelled from   *)
(* the contract "an If with a constant test loses the projection that is    *)
(* not taken, then goes away"), and the classification of the nodes.        *)

InitPred ==
  /\ \E ks \in PredSeqs : nodes = PredGraph(ks)
  /\ loops = <<[head |-> Len(nodes)]>>
  /\ env = [LoopUnswitching |-> TRUE, debug |-> TRUE, budget |-> 4 * Len(nodes)]
  /\ pc = "preds"
  /\ cur = 0
  /\ res = "none"
  /\ seen = 0
  /\ last = NoInfo
  /\ dfs = NoDfs

\* The control nodes that are part of the graph.
LiveControl(g) == {n \in 1..Len(g) : is_CFG(g, n) /\ In(g, n, 0) # 0}

\* The nodes control dependent on a node of 'dead', 'dead' included.
RECURSIVE control_below(_, _)
control_below(g, dead) ==
  LET more == {n \in 1..Len(g) : is_CFG(g, n) /\ n \notin dead
                                 /\ \E i \in 0..(req(g, n) - 1) : In(g, n, i) \in dead}
  IN IF more = {} THEN dead ELSE control_below(g, dead \cup more)

\* The graph without the nodes of 'dead': they lose their inputs.
remove_dead(g, dead) ==
  [n \in 1..Len(g) |->
     IF n \in dead THEN [g[n] EXCEPT !.in = [i \in 1..Len(g[n].in) |-> 0]] ELSE g[n]]

\* The test of an If or RangeCheck is found to be the constant con.
FoldTest(iff, con) ==
  /\ pc \in {"preds", "classified"}
  /\ nodes[iff].op \in {"If", "RangeCheck"}
  /\ In(nodes, iff, 0) # 0
  /\ ~is_ConI(nodes, In(nodes, iff, 1))
  /\ nodes' = set_req(nodes, iff, 1, IF con = 1 THEN Con1Idx ELSE Con0Idx)
  /\ pc' = "preds" /\ res' = "none"
  /\ UNCHANGED <<loops, env, cur, seen, last, dfs>>

\* An If with a constant test (a Parse Predicate always has one) loses the
\* projection that is not taken, with all that hangs on it.
RemoveDeadProjection(iff) ==
  /\ pc \in {"preds", "classified"}
  /\ is_If(nodes, iff)
  /\ In(nodes, iff, 0) # 0
  /\ is_ConI(nodes, In(nodes, iff, 1))
  /\ outcnt(nodes, iff) = 2
  /\ LET dead_proj == proj_out(nodes, iff, 1 - nodes[In(nodes, iff, 1)].val)
     IN nodes' = remove_dead(nodes, control_below(nodes, {dead_proj}))
  /\ pc' = "preds" /\ res' = "none"
  /\ UNCHANGED <<loops, env, cur, seen, last, dfs>>

\* An If with one projection left goes away: the users of the projection
\* become users of the control input of the If.
RemoveIf(iff) ==
  /\ pc \in {"preds", "classified"}
  /\ is_If(nodes, iff)
  /\ In(nodes, iff, 0) # 0
  /\ outcnt(nodes, iff) = 1
  /\ LET proj == unique_out(nodes, iff)
         ctrl == In(nodes, iff, 0)
     IN nodes' = remove_dead(
                   [n \in 1..Len(nodes) |->
                      [nodes[n] EXCEPT
                         !.in = [i \in 1..Len(nodes[n].in) |->
                                   IF nodes[n].in[i] = proj THEN ctrl ELSE nodes[n].in[i]],
                         !.idom = IF nodes[n].idom = proj THEN ctrl ELSE nodes[n].idom]],
                   {iff, proj})
  /\ pc' = "preds" /\ res' = "none"
  /\ UNCHANGED <<loops, env, cur, seen, last, dfs>>


-----------------------------------------------------------------------------
(* Properties of the classification *)

\* C10: for any control node in any reachable graph state at most one predicate
\* variant accepts it: it is never at the same time, in any pair, a Parse
\* Predicate success projection, a Runtime Predicate success projection
\* (RuntimePredicate::is_success_proj), a Template Assertion Predicate and an
\* Initialized Assertion Predicate success projection
\* (InitializedAssertionPredicate::is_success_proj).
C10_AtMostOneVariant ==
  /\ \A n \in LiveControl(nodes) : Cardinality(variants(nodes, n)) <= 1
  /\ pc = "classified" => \A n \in DOMAIN res : Cardinality(res[n]) <= 1

\* The nodes of a graph were classified in which an Initialized Assertion
\* Predicate whose test is already a constant still has its Halt, a Runtime
\* Predicate has lost its uncommon projection, and every variant but the
\* Template Assertion Predicate accepts some node.
C10_Witness ==
  /\ pc = "classified"
  /\ \E n \in DOMAIN res :
       /\ res[n] = {"InitializedAssertionPredicate"}
       /\ is_ConI(nodes, In(nodes, In(nodes, n, 0), 1))
  /\ \E n \in DOMAIN res :
       /\ res[n] = {"RuntimePredicate"}
       /\ outcnt(nodes, In(nodes, n, 0)) = 1

\* The nodes of a graph with a Parse Predicate and a Template Assertion
\* Predicate were classified.
C10_WitnessParseTemplate ==
  /\ pc = "classified"
  /\ \E n \in DOMAIN res : res[n] = {"ParsePredicate"}
  /\ \E n \in DOMAIN res : res[n] = {"TemplateAssertionPredicate"}

-----------------------------------------------------------------------------
(* Predicates that are being folded *)

\* The kind PredGraph built the If 'iff' as, read off the nodes AddPred put
\* below it (dead nodes keep their place and their opcode).
IntendedKind(g, iff) ==
  IF iff + 3 > Len(g) \/ g[iff].op \notin {"If", "RangeCheck"}
     \/ ~is_IfTrue(g, iff + 1) \/ ~is_IfFalse(g, iff + 2) THEN "none"
  ELSE IF g[iff].ztg THEN "ZeroTripGuard"
  ELSE IF g[iff + 3].op = "Halt" THEN "Initialized"
  ELSE IF g[iff + 3].op = "CallStaticJava"
          /\ g[iff + 3].reason \in {"loop_limit_check", "predicate", "profile_predicate"}
  THEN "Runtime"
  ELSE "Other"

\* The live Ifs of the intended kind whose test is a constant and that have
\* only the success projection left.
FoldedToSuccessProj(g, kind) ==
  {iff \in 1..Len(g) :
     /\ IntendedKind(g, iff) = kind
     /\ In(g, iff, 0) # 0
     /\ is_ConI(g, In(g, iff, 1))
     /\ outcnt(g, iff) = 1
     /\ In(g, iff + 1, 0) = iff}

\* The live Initialized Assertion Predicates whose test is a constant and that
\* still have both projections and the Halt.
ConstantWithHalt(g) ==
  {iff \in 1..Len(g) :
     /\ IntendedKind(g, iff) = "Initialized"
     /\ In(g, iff, 0) # 0
     /\ is_ConI(g, In(g, iff, 1))
     /\ outcnt(g, iff) = 2
     /\ In(g, iff + 3, 0) = iff + 2}

\* C11 as stated: an Initialized Assertion Predicate with a constant test and
\* only its success projection left is still classified as an Initialized
\* Assertion Predicate.
C11_Original ==
  \A iff \in FoldedToSuccessProj(nodes, "Initialized") :
     "InitializedAssertionPredicate" \in variants(nodes, iff + 1)

\* C11: a Runtime Predicate with a constant test and only its success
\* projection left is still classified as a Runtime Predicate; an Initialized
\* Assertion Predicate with a constant test is still classified as an
\* Initialized Assertion Predicate while it has both projections and its Halt,
\* and is classified as a Runtime Predicate once only its success projection
\* is left.
C11_FoldedKeepsAccepted ==
  /\ \A iff \in FoldedToSuccessProj(nodes, "Runtime") :
       variants(nodes, iff + 1) = {"RuntimePredicate"}
  /\ \A iff \in ConstantWithHalt(nodes) :
       variants(nodes, iff + 1) = {"InitializedAssertionPredicate"}
  /\ \A iff \in FoldedToSuccessProj(nodes, "Initialized") :
       variants(nodes, iff + 1) = {"RuntimePredicate"}
  /\ pc = "classified" =>
       \A iff \in FoldedToSuccessProj(nodes, "Runtime")
                    \cup FoldedToSuccessProj(nodes, "Initialized") :
          res[iff + 1] = {"RuntimePredicate"}

\* The nodes were classified of a graph in which a Runtime Predicate and an
\* Initialized Assertion Predicate have both been folded down to their success
\* projection.
C11_Witness ==
  /\ pc = "classified"
  /\ FoldedToSuccessProj(nodes, "Runtime") # {}
  /\ FoldedToSuccessProj(nodes, "Initialized") # {}

-----------------------------------------------------------------------------
(* The predicate blocks above a loop (predicates.hpp)                        *)

MaxBlockPreds == 3

\* The predicates of the chains the blocks are searched in: Parse Predicates
\* and Runtime Predicates of the three predicate reasons, Template Assertion
\* Predicates and Initialized Assertion Predicates.
BlockKinds ==
  {[kind |-> "Parse", op |-> "ParsePredicate", reason |-> r] :
     r \in {"loop_limit_check", "profile_predicate", "predicate"}}
  \cup {[kind |-> "Runtime", op |-> "If", reason |-> r] :
          r \in {"loop_limit_check", "profile_predicate", "predicate"}}
  \cup {[kind |-> "Template", op |-> "TemplateAssertionPredicate", reason |-> "none"],
        [kind |-> "Initialized", op |-> "If", reason |-> "none"]}

BlockSeqs == UNION {[1..k -> BlockKinds] : k \in 0..MaxBlockPreds}

\* The graph after IGVN found the test of 'iff' to be true (mode "con"), and
\* after it also removed the projection that is not taken (mode "proj").
folding(g, iff, mode) ==
  LET g1 == set_req(g, iff, 1, Con1Idx)
  IN IF mode = "con" THEN g1
     ELSE remove_dead(g1, control_below(g1, {proj_out(g1, iff, 0)}))

\* The loop entry of the loop of the model.
loop_entry_of(g) == In(g, Len(g), EntryControl)

\* ParsePredicate(Node*) whose entry is always the node it was given.
ParsePredicate_M25(g, parse_predicate_proj) ==
  LET node == IF is_parse_predicate_success_proj(g, parse_predicate_proj)
              THEN In(g, parse_predicate_proj, 0) ELSE 0
  IN [success_proj |-> IF is_IfTrue(g, parse_predicate_proj) THEN parse_predicate_proj ELSE 0,
      node |-> node,
      entry |-> parse_predicate_proj]

\* ParsePredicate(Node*): <<node, entry>>, node = 0 if not valid.
ParsePredicate(g, parse_predicate_proj) ==
  LET node == IF is_parse_predicate_success_proj(g, parse_predicate_proj)
              THEN In(g, parse_predicate_proj, 0) ELSE 0
  IN [success_proj |-> IF is_IfTrue(g, parse_predicate_proj) THEN parse_predicate_proj ELSE 0,
      node |-> node,
      entry |-> IF node # 0 THEN In(g, node, 0) ELSE parse_predicate_proj]

\* RuntimePredicateBlock::find_entry that does not look at the deopt reason.
RECURSIVE find_entry_M13(_, _, _)
find_entry_M13(g, runtime_predicate_proj, deopt_reason) ==
  IF RuntimePredicate_is_success_proj(g, runtime_predicate_proj)
  THEN find_entry_M13(g, In(g, In(g, runtime_predicate_proj, 0), 0), deopt_reason)
  ELSE runtime_predicate_proj

\* RuntimePredicateBlock::find_entry.
RECURSIVE find_entry(_, _, _)
find_entry(g, runtime_predicate_proj, deopt_reason) ==
  IF RuntimePredicate_is_success_proj_for(g, runtime_predicate_proj, deopt_reason)
  THEN find_entry(g, In(g, In(g, runtime_predicate_proj, 0), 0), deopt_reason)
  ELSE runtime_predicate_proj

RuntimePredicateBlock(g, runtime_predicate_proj, deopt_reason) ==
  [last |-> runtime_predicate_proj,
   entry |-> find_entry(g, runtime_predicate_proj, deopt_reason)]

RegularPredicateBlock(g, predicate_proj, deopt_reason) ==
  LET parse_predicate == ParsePredicate(g, predicate_proj)
      runtime_predicate_block ==
        RuntimePredicateBlock(g, parse_predicate.entry, deopt_reason)
  IN [last |-> predicate_proj,
      deopt_reason |-> deopt_reason,
      parse_predicate |-> parse_predicate,
      runtime_predicate_block |-> runtime_predicate_block,
      entry |-> runtime_predicate_block.entry]

\* TemplateAssertionPredicateBlock(Node*): the Template Assertion Predicates
\* directly above the loop entry.
RECURSIVE template_entry(_, _)
template_entry(g, n) ==
  IF is_TemplateAssertionPredicate(g, n) THEN template_entry(g, In(g, n, 0)) ELSE n

TemplateAssertionPredicateBlock(g, loop_entry) ==
  [last |-> loop_entry, entry |-> template_entry(g, loop_entry)]

\* InitializedAssertionPredicateBlock(Node*): the Initialized Assertion
\* Predicates directly above the given projection.
RECURSIVE initialized_entry(_, _)
initialized_entry(g, n) ==
  IF InitializedAssertionPredicate_is_success_proj(g, n)
  THEN initialized_entry(g, In(g, In(g, n, 0), 0)) ELSE n

InitializedAssertionPredicateBlock(g, initialized_assertion_predicate_proj) ==
  [last |-> initialized_assertion_predicate_proj,
   entry |-> initialized_entry(g, initialized_assertion_predicate_proj)]

AssertionPredicateBlock(g, loop_entry) ==
  LET template_assertion_predicate_block == TemplateAssertionPredicateBlock(g, loop_entry)
      initialized_assertion_predicate_block ==
        InitializedAssertionPredicateBlock(g, template_assertion_predicate_block.entry)
  IN [last |-> loop_entry,
      template_assertion_predicate_block |-> template_assertion_predicate_block,
      initialized_assertion_predicate_block |-> initialized_assertion_predicate_block,
      entry |-> initialized_assertion_predicate_block.entry]

\* Predicates(Node*) with the Regular Predicate blocks looked for at the loop
\* entry and the Assertion Predicate block above them.
Predicates_M12(g, loop_entry) ==
  LET llc == RegularPredicateBlock(g, loop_entry, "loop_limit_check")
      prof == RegularPredicateBlock(g, llc.entry, "profile_predicate")
      lp == RegularPredicateBlock(g, prof.entry, "predicate")
      apb == AssertionPredicateBlock(g, lp.entry)
  IN [loop_entry |-> loop_entry,
      assertion_predicate_block |-> apb,
      loop_limit_check_predicate_block |-> llc,
      profiled_loop_predicate_block |-> prof,
      loop_predicate_block |-> lp,
      entry |-> apb.entry]

\* Predicates(Node*).
Predicates(g, loop_entry) ==
  LET apb == AssertionPredicateBlock(g, loop_entry)
      llc == RegularPredicateBlock(g, apb.entry, "loop_limit_check")
      prof == RegularPredicateBlock(g, llc.entry, "profile_predicate")
      lp == RegularPredicateBlock(g, prof.entry, "predicate")
  IN [loop_entry |-> loop_entry,
      assertion_predicate_block |-> apb,
      loop_limit_check_predicate_block |-> llc,
      profiled_loop_predicate_block |-> prof,
      loop_predicate_block |-> lp,
      entry |-> lp.entry]

has_parse_predicates(p) ==
  \/ p.loop_predicate_block.parse_predicate.node # 0
  \/ p.profiled_loop_predicate_block.parse_predicate.node # 0
  \/ p.loop_limit_check_predicate_block.parse_predicate.node # 0

\* A chain of predicates above one loop; at most one of its Ifs is being folded.
InitBlocks ==
  /\ \E ks \in BlockSeqs :
       LET g == PredGraph(ks)
       IN \/ nodes = g
          \/ \E iff \in 1..Len(g), mode \in {"con", "proj"} :
               /\ g[iff].op \in {"If", "RangeCheck"}
               /\ nodes = folding(g, iff, mode)
  /\ loops = <<[head |-> Len(nodes)]>>
  /\ env = [LoopUnswitching |-> TRUE, debug |-> TRUE, budget |-> 4 * Len(nodes)]
  /\ pc = "blocks"
  /\ cur = 0
  /\ res = "none"
  /\ seen = 0
  /\ last = NoInfo
  /\ dfs = NoDfs

\* Predicates predicates(loop_entry).
NewPredicates ==
  /\ pc = "blocks"
  /\ res' = Predicates(nodes, loop_entry_of(nodes))
  /\ pc' = "found"
  /\ UNCHANGED <<nodes, loops, env, cur, seen, last, dfs>>

\* The predicate views constructed from the control node n.
Views(g, n) ==
  [parse_predicate |-> ParsePredicate(g, n),
   runtime_predicate |-> RuntimePredicate_is_success_proj(g, n),
   template_assertion_predicate |-> IF is_TemplateAssertionPredicate(g, n)
                                    THEN [head |-> n, tail |-> n] ELSE [head |-> 0, tail |-> 0],
   initialized_assertion_predicate |-> InitializedAssertionPredicate_is_success_proj(g, n),
   predicates |-> Predicates(g, n)]

\* The views are constructed from the loop entry, which is the last node of
\* the chain of predicates, whatever it is; 'first' keeps the views of the
\* construction before this one.
NewViews ==
  /\ pc \in {"found", "views"}
  /\ pc = "views" => last.first = <<>>
  /\ last' = [views |-> [n \in {loop_entry_of(nodes)} |-> Views(nodes, n)],
              first |-> IF pc = "views" THEN last.views ELSE <<>>,
              graph |-> nodes]
  /\ pc' = "views"
  /\ UNCHANGED <<nodes, loops, env, cur, res, seen, dfs>>

NextBlocks ==
  \/ NewPredicates
  \/ NewViews

SpecBlocks == InitBlocks /\ [][NextBlocks]_vars

-----------------------------------------------------------------------------
(* Properties of the predicate blocks *)

\* The node a predicate is entered from, given its tail.
predicate_entry(g, n) ==
  IF is_TemplateAssertionPredicate(g, n) THEN In(g, n, 0) ELSE In(g, In(g, n, 0), 0)

\* The tails of the predicates from 'from' up to, and without, 'entry'.
RECURSIVE TailsBetween(_, _, _)
TailsBetween(g, from, entry) ==
  IF from = entry \/ from = 0 THEN {}
  ELSE {from} \cup TailsBetween(g, predicate_entry(g, from), entry)

BlockTails(g, block) == TailsBetween(g, block.last, block.entry)

RegularBlocksOf(p) ==
  {p.loop_limit_check_predicate_block, p.profiled_loop_predicate_block,
   p.loop_predicate_block}

ParseTails(g, block) ==
  {n \in BlockTails(g, block) : is_parse_predicate_success_proj(g, n)}

RuntimeTails(g, block) == BlockTails(g, block) \ ParseTails(g, block)

C13_WitnessFolded ==
  /\ pc = "found"
  /\ \E b \in RegularBlocksOf(res) : \E n \in RuntimeTails(nodes, b) :
       is_being_folded_without_uncommon_proj(nodes, n)

-----------------------------------------------------------------------------
(* The predicate iterators (predicates.cpp) and the elimination of useless   *)
(* Parse Predicates                                                          *)

MaxElimPreds == 2

\* RegularPredicateInBlockIterator::for_each: the node the block is entered
\* from and the predicates handed to the visitor.
RECURSIVE RegularPredicateInBlockIterator_for_each(_, _, _)
RegularPredicateInBlockIterator_for_each(g, entry, deopt_reason) ==
  IF is_TemplateAssertionPredicate(g, entry)
  THEN LET r == RegularPredicateInBlockIterator_for_each(g, In(g, entry, 0), deopt_reason)
       IN [entry |-> r.entry,
           visited |-> {[kind |-> "Template", head |-> entry]} \cup r.visited]
  ELSE IF RuntimePredicate_is_success_proj_for(g, entry, deopt_reason)
  THEN LET r == RegularPredicateInBlockIterator_for_each(
                  g, In(g, In(g, entry, 0), 0), deopt_reason)
       IN [entry |-> r.entry,
           visited |-> {[kind |-> "Runtime", head |-> In(g, entry, 0)]} \cup r.visited]
  ELSE IF InitializedAssertionPredicate_is_success_proj(g, entry)
  THEN LET r == RegularPredicateInBlockIterator_for_each(
                  g, In(g, In(g, entry, 0), 0), deopt_reason)
       IN [entry |-> r.entry,
           visited |-> {[kind |-> "Initialized", head |-> In(g, entry, 0)]} \cup r.visited]
  ELSE [entry |-> entry, visited |-> {}]

\* The deopt reasons of the Regular Predicate Blocks.
PredicateReasons == {"loop_limit_check", "profile_predicate", "predicate"}

\* PredicateEntryIterator::has_next: is the current node the tail of a predicate?
has_next(g, current) ==
  IF is_TemplateAssertionPredicate(g, current)
  THEN TRUE
  ELSE IF is_IfProj(g, current)
  THEN LET if_node == In(g, current, 0)
       IN \/ is_ParsePredicate(g, if_node)
          \/ RuntimePredicate_is_success_proj(g, current)
          \/ InitializedAssertionPredicate_is_success_proj(g, current)
  ELSE FALSE

\* The projections that are the only one left of their If.
SingleProjections(g) ==
  {n \in LiveControl(g) : is_IfProj(g, n) /\ outcnt(g, In(g, n, 0)) = 1}

\* Every control node of the graph is classified.
Classify ==
  /\ pc = "preds"
  /\ res' = [n \in LiveControl(nodes) |-> variants(nodes, n)]
  /\ pc' = "classified"
  /\ UNCHANGED <<nodes, loops, env, cur, seen, last, dfs>>

NextPred ==
  \/ \E iff \in 1..Len(nodes), con \in {0, 1} : FoldTest(iff, con)
  \/ \E iff \in 1..Len(nodes) : RemoveDeadProjection(iff)
  \/ \E iff \in 1..Len(nodes) : RemoveIf(iff)
  \/ Classify

SpecPred == InitPred /\ [][NextPred]_vars

\* The predicate walks are started at every projection that is the only one
\* left of its If, for every deopt reason.
WalkPredicates ==
  /\ pc = "preds"
  /\ \E tails \in {SingleProjections(nodes)} :
       last' = [has_next |-> [n \in tails |-> has_next(nodes, n)],
                is_success_proj |->
                  [n \in tails |->
                     {r \in PredicateReasons :
                        RuntimePredicate_is_success_proj_for(nodes, n, r)}],
                find_entry |->
                  [n \in tails |-> [r \in PredicateReasons |-> find_entry(nodes, n, r)]],
                for_each |->
                  [n \in tails |->
                     [r \in PredicateReasons |->
                        RegularPredicateInBlockIterator_for_each(nodes, n, r)]]]
  /\ pc' = "walked"
  /\ UNCHANGED <<nodes, loops, env, cur, res, seen, dfs>>

NextWalk ==
  \/ \E iff \in 1..Len(nodes), con \in {0, 1} : FoldTest(iff, con)
  \/ \E iff \in 1..Len(nodes) : RemoveDeadProjection(iff)
  \/ \E iff \in 1..Len(nodes) : RemoveIf(iff)
  \/ WalkPredicates

SpecWalk == InitPred /\ [][NextWalk]_vars

\* PredicateInBlockIterator::for_each.
PredicateInBlockIterator_for_each(g, start_node, deopt_reason) ==
  IF is_parse_predicate_success_proj(g, start_node)
  THEN LET parse_predicate == init_parse_predicate(g, start_node, deopt_reason)
       IN IF parse_predicate # 0
          THEN LET r == RegularPredicateInBlockIterator_for_each(
                          g, In(g, parse_predicate, 0), deopt_reason)
               IN [entry |-> r.entry,
                   visited |-> {[kind |-> "Parse", head |-> parse_predicate]} \cup r.visited]
          ELSE [entry |-> start_node, visited |-> {}]
  ELSE RegularPredicateInBlockIterator_for_each(g, start_node, deopt_reason)

\* PredicatesForLoop::for_each: the predicates handed to the visitor.
PredicatesForLoop_for_each(g, start_node, flags) ==
  LET llc == PredicateInBlockIterator_for_each(g, start_node, "loop_limit_check")
      prof == IF flags.UseProfiledLoopPredicate
              THEN PredicateInBlockIterator_for_each(g, llc.entry, "profile_predicate")
              ELSE [entry |-> llc.entry, visited |-> {}]
      lp == PredicateInBlockIterator_for_each(g, prof.entry, "predicate")
  IN IF flags.UseLoopPredicate
     THEN llc.visited \cup prof.visited \cup lp.visited
     ELSE llc.visited

is_OuterStripMinedLoop(g, n) == n # 0 /\ g[n].op = "OuterStripMinedLoop"

\* LoopNode::skip_strip_mined: the outer strip mined loop head of a strip mined
\* counted loop, the head itself otherwise.
skip_strip_mined(g, head) ==
  IF is_CountedLoop(g, head) /\ is_OuterStripMinedLoop(g, In(g, head, EntryControl))
  THEN In(g, head, EntryControl) ELSE head

\* C->parse_predicates().
parse_predicates(g) == {n \in 1..Len(g) : is_ParsePredicate(g, n)}

\* ParsePredicateNode::mark_useless / mark_useful.
mark_useless(g, n) == [g EXCEPT ![n].useless = TRUE]
mark_useful(g, n) == [g EXCEPT ![n].useless = FALSE]

\* EliminateUselessParsePredicates::mark_all_parse_predicates_useless that marks
\* nothing.
mark_all_parse_predicates_useless_M14(g) == g

\* EliminateUselessParsePredicates::mark_all_parse_predicates_useless.
mark_all_parse_predicates_useless(g) ==
  [n \in 1..Len(g) |-> IF is_ParsePredicate(g, n) THEN mark_useless(g, n)[n] ELSE g[n]]

\* ParsePredicateUsefulMarker that marks the Template Assertion Predicates it
\* visits useful as well.
ParsePredicateUsefulMarker_M16(g, visited) ==
  [n \in 1..Len(g) |->
     IF \E v \in visited : v.head = n /\ v.kind \in {"Parse", "Template"}
     THEN mark_useful(g, n)[n] ELSE g[n]]

\* ParsePredicateUsefulMarker applied to the predicates an iterator visits.
ParsePredicateUsefulMarker(g, visited) ==
  [n \in 1..Len(g) |->
     IF [kind |-> "Parse", head |-> n] \in visited THEN mark_useful(g, n)[n] ELSE g[n]]

\* EliminateUselessParsePredicates::mark_parse_predicates_useful.
mark_parse_predicates_useful(g, loop, flags) ==
  IF loop.can_apply_loop_predication /\ ~is_OuterStripMinedLoop(g, loop.head)
  THEN LET entry == In(g, skip_strip_mined(g, loop.head), EntryControl)
       IN ParsePredicateUsefulMarker(g, PredicatesForLoop_for_each(g, entry, flags))
  ELSE g

\* EliminateUselessParsePredicates::add_useless_predicates_to_igvn_worklist:
\* the Parse Predicates pushed.
add_useless_predicates_to_igvn_worklist(g) ==
  {n \in parse_predicates(g) : g[n].useless}

\* The place of a predicate in the chain above a loop, from the entry down:
\* the Loop block, the Profiled Loop block and the Loop Limit Check block,
\* each with its Runtime Predicates above its Parse Predicate, and the
\* Assertion Predicates directly above the loop head.
ChainRank(k) ==
  CASE k.kind = "Runtime" /\ k.reason = "predicate" -> 1
    [] k.kind = "Parse" /\ k.reason = "predicate" -> 2
    [] k.kind = "Runtime" /\ k.reason = "profile_predicate" -> 3
    [] k.kind = "Parse" /\ k.reason = "profile_predicate" -> 4
    [] k.kind = "Runtime" /\ k.reason = "loop_limit_check" -> 5
    [] k.kind = "Parse" /\ k.reason = "loop_limit_check" -> 6
    [] k.kind = "Initialized" -> 7
    [] OTHER -> 8

\* The chains of predicates loop predication and loop unswitching leave above a
\* loop.
ElimSeqs ==
  {ks \in UNION {[1..k -> BlockKinds] : k \in 0..MaxElimPreds} :
     \A i \in 1..(Len(ks) - 1) :
        /\ ChainRank(ks[i]) <= ChainRank(ks[i + 1])
        /\ ks[i].kind = "Parse" => ChainRank(ks[i]) < ChainRank(ks[i + 1])}

\* The loop below the chain becomes an outer strip mined loop with its strip
\* mined counted loop.
strip_mined(g) ==
  LET outer == Len(g)
      inner == Len(g) + 1
  IN Append([g EXCEPT ![outer].op = "OuterStripMinedLoop"],
            NewNode("CountedLoop", <<0, outer, inner>>, 1, outer))

\* A Parse Predicate that is left of a loop that was removed.
with_removed_loop(g) ==
  AddPred(g, [kind |-> "Parse", op |-> "ParsePredicate", reason |-> "predicate"], EntryIdx)[1]

\* The nodes with the useless flag an earlier round left: 'of_removed' for the
\* nodes 'removed' of the removed loop, 'rest' for the others.
with_useless(g, removed, rest, of_removed) ==
  [n \in 1..Len(g) |->
     g[n] @@ ("useless" :> IF n \in removed THEN of_removed ELSE rest)]

\* The loops of the loop tree: the loop below the chain, whether loop
\* predication can be applied to it; both loops if it is strip mined.
LoopTrees(g, head) ==
  IF is_OuterStripMinedLoop(g, head)
  THEN {<<[head |-> head, can_apply_loop_predication |-> TRUE],
          [head |-> head + 1, can_apply_loop_predication |-> TRUE]>>}
  ELSE {<<[head |-> head, can_apply_loop_predication |-> c]>> : c \in BOOLEAN}

InitElim ==
  /\ \E ks \in ElimSeqs, strip \in BOOLEAN, rest \in BOOLEAN, of_removed \in BOOLEAN :
       LET g1 == PredGraph(ks)
           g2 == IF strip THEN strip_mined(g1) ELSE g1
           g3 == with_removed_loop(g2)
       IN /\ nodes = with_useless(g3, (Len(g2) + 1)..Len(g3), rest, of_removed)
          /\ loops \in LoopTrees(g2, Len(g1))
  /\ \E f \in {<<TRUE, TRUE>>, <<TRUE, FALSE>>, <<FALSE, FALSE>>} :
       env = [UseLoopPredicate |-> f[1], UseProfiledLoopPredicate |-> f[2]]
  /\ pc = "eliminate"
  /\ cur = 0
  /\ res = "none"
  /\ seen = {n \in 1..Len(nodes) :
               /\ is_ParsePredicate(nodes, n) \/ is_TemplateAssertionPredicate(nodes, n)
               /\ nodes[n].useless}
  /\ last = NoInfo
  /\ dfs = NoDfs

\* eliminate(): mark_all_parse_predicates_useless().
MarkAllParsePredicatesUseless ==
  /\ pc = "eliminate"
  /\ nodes' = mark_all_parse_predicates_useless(nodes)
  /\ pc' = "loops"
  /\ cur' = 1
  /\ UNCHANGED <<loops, env, res, seen, last, dfs>>

\* eliminate(): one round of the loop over the loop tree.
MarkParsePredicatesUseful ==
  /\ pc = "loops"
  /\ cur <= Len(loops)
  /\ nodes' = mark_parse_predicates_useful(nodes, loops[cur], env)
  /\ cur' = cur + 1
  /\ UNCHANGED <<loops, env, pc, res, seen, last, dfs>>

\* eliminate(): add_useless_predicates_to_igvn_worklist().
AddUselessPredicatesToIgvnWorklist ==
  /\ pc = "loops"
  /\ cur > Len(loops)
  /\ res' = add_useless_predicates_to_igvn_worklist(nodes)
  /\ pc' = "eliminated"
  /\ UNCHANGED <<nodes, loops, env, cur, seen, last, dfs>>

NextElim ==
  \/ MarkAllParsePredicatesUseless
  \/ MarkParsePredicatesUseful
  \/ AddUselessPredicatesToIgvnWorklist

SpecElim == InitElim /\ [][NextElim]_vars

-----------------------------------------------------------------------------
(* Properties of the elimination of useless Parse Predicates *)

\* The loops of the loop tree eliminate() walks the predicates of.
WalkedLoops ==
  {i \in 1..Len(loops) :
     loops[i].can_apply_loop_predication /\ ~is_OuterStripMinedLoop(nodes, loops[i].head)}

\* The Parse Predicates the walks of eliminate() visit.
VisitedParsePredicates ==
  {v.head : v \in {w \in UNION {PredicatesForLoop_for_each(
                                  nodes, In(nodes, skip_strip_mined(nodes, loops[i].head),
                                            EntryControl), env) : i \in WalkedLoops} :
                     w.kind = "Parse"}}

\* The Parse Predicates on the chain of predicates above a loop of the loop tree.
ParsePredicatesAboveLoops ==
  {p \in parse_predicates(nodes) :
     \E i \in 1..Len(loops) :
        proj_out(nodes, p, 1)
          \in TailsBetween(nodes, In(nodes, skip_strip_mined(nodes, loops[i].head),
                                     EntryControl), 0)}

ParsePredicatesAbove(i) ==
  {p \in parse_predicates(nodes) :
     proj_out(nodes, p, 1)
       \in TailsBetween(nodes, In(nodes, skip_strip_mined(nodes, loops[i].head),
                                  EntryControl), 0)}

\* The loops of the loop tree with an Assertion Predicate directly above the head.
AssertionPredicateAtLoopEntry(i) ==
  LET entry == In(nodes, skip_strip_mined(nodes, loops[i].head), EntryControl)
  IN \/ is_TemplateAssertionPredicate(nodes, entry)
     \/ InitializedAssertionPredicate_is_success_proj(nodes, entry)

\* C15: after eliminate(), with UseLoopPredicate and UseProfiledLoopPredicate
\* enabled, every Parse Predicate on the chain of predicates above the head of
\* a loop with can_apply_loop_predication() whose head is not an
\* OuterStripMinedLoop is marked useful and is not pushed to the worklist, also
\* when Template Assertion Predicates, Initialized Assertion Predicates or
\* Runtime Predicates lie between the loop head and that Parse Predicate.
C15_ParsePredicatesOfLoopsUseful ==
  (pc = "eliminated" /\ env.UseLoopPredicate /\ env.UseProfiledLoopPredicate) =>
    \A i \in WalkedLoops : \A p \in ParsePredicatesAbove(i) :
       ~nodes[p].useless /\ p \notin res

\* The same for the loops without an Assertion Predicate directly above the
\* head: their Parse Predicates are marked useful and are not pushed.
C15_UsefulWithoutAssertionPredicateBelow ==
  (pc = "eliminated" /\ env.UseLoopPredicate /\ env.UseProfiledLoopPredicate) =>
    \A i \in WalkedLoops :
       ~AssertionPredicateAtLoopEntry(i) =>
          \A p \in ParsePredicatesAbove(i) : ~nodes[p].useless /\ p \notin res

\* eliminate() has left useful the two Parse Predicates above a loop that has a
\* Runtime Predicate or nothing between them and its head.
C15_WitnessUseful ==
  /\ pc = "eliminated" /\ env.UseLoopPredicate /\ env.UseProfiledLoopPredicate
  /\ \E i \in WalkedLoops :
       /\ ~AssertionPredicateAtLoopEntry(i)
       /\ Cardinality(ParsePredicatesAbove(i)) = 2
       /\ ParsePredicatesAbove(i) \cap res = {}

\* eliminate() has pushed the Parse Predicate above a loop that has a Template
\* Assertion Predicate between the Parse Predicate and its head.
C15_WitnessPushed ==
  /\ pc = "eliminated" /\ env.UseLoopPredicate /\ env.UseProfiledLoopPredicate
  /\ \E i \in WalkedLoops :
       /\ is_TemplateAssertionPredicate(
            nodes, In(nodes, skip_strip_mined(nodes, loops[i].head), EntryControl))
       /\ ParsePredicatesAbove(i) \cap res # {}

\* The Template Assertion Predicates of the graph.
template_assertion_predicates(g) ==
  {n \in 1..Len(g) : is_TemplateAssertionPredicate(g, n)}

\* The Template Assertion Predicates the walks of eliminate() visit.
VisitedTemplates ==
  {v.head : v \in {w \in UNION {PredicatesForLoop_for_each(
                                  nodes, In(nodes, skip_strip_mined(nodes, loops[i].head),
                                            EntryControl), env) : i \in WalkedLoops} :
                     w.kind = "Template"}}

\* C16 as stated: after phase 2 the Template Assertion Predicates the walks
\* over the loops visit are marked useful.
C16_Original ==
  pc = "eliminated" => \A t \in VisitedTemplates : ~nodes[t].useless

\* C16: eliminate() leaves the Template Assertion Predicates as they are: no
\* phase changes the useless flag of a Template Assertion Predicate, also not
\* of one the walk of phase 2 visits, and phase 3 pushes none.
C16_TemplatesUntouched ==
  /\ \A t \in template_assertion_predicates(nodes) : nodes[t].useless <=> t \in seen
  /\ pc = "eliminated" => res \cap template_assertion_predicates(nodes) = {}

\* eliminate() has walked over a Template Assertion Predicate that was useless
\* before, above a loop loop predication can be applied to.
C16_Witness ==
  /\ pc = "eliminated"
  /\ \E t \in VisitedTemplates : t \in seen /\ nodes[t].useless

-----------------------------------------------------------------------------
-----------------------------------------------------------------------------
(* Unswitching a loop with predicates above its head (UnswitchedLoop,      *)
(* UnswitchedParsePredicates, UnswitchedTemplateAssertionPredicates)        *)

MaxTemplates == 2     \* Template Assertion Predicates above the loop head
MaxPinned == 2        \* data nodes pinned on the loop entry

\* The two bools of the Template Assertion Predicates of the model:
\* Bool(CmpU(OpaqueLoopInit, range)) for the init value and
\* Bool(CmpU(AddI(OpaqueLoopInit, OpaqueLoopStride), range)) for the last value.
InitValueBoolIdx == Len(ExprBase) + 2
LastValueBoolIdx == Len(ExprBase) + 5

\* Input indices of a TemplateAssertionPredicateNode.
InitValue == 1
LastValue == 2

UnswBase ==
  ExprBase \o << NewNode("CmpU", <<0, OpaqueInitIdx, RangeIdx>>, 0, 0),
                 NewNode("Bool", <<0, Len(ExprBase) + 1>>, 0, 0),
                 NewNode("AddI", <<0, OpaqueInitIdx, OpaqueStrideIdx>>, 0, 0),
                 NewNode("CmpU", <<0, Len(ExprBase) + 3, RangeIdx>>, 0, 0),
                 NewNode("Bool", <<0, Len(ExprBase) + 4>>, 0, 0) >>

\* n Template Assertion Predicates below ctrl: <<graph, tail>>.
RECURSIVE AddTemplates(_, _, _)
AddTemplates(g, n, ctrl) ==
  IF n = 0 THEN <<g, ctrl>>
  ELSE AddTemplates(Append(g, NewNode("TemplateAssertionPredicate",
                                      <<ctrl, InitValueBoolIdx, LastValueBoolIdx>>, 0, ctrl)),
                    n - 1, Len(g) + 1)

\* k data nodes pinned on ctrl; the node i belongs to the loop where[i].
RECURSIVE AddPinned(_, _, _)
AddPinned(g, where, ctrl) ==
  IF where = <<>> THEN g
  ELSE AddPinned(Append(g, NewNode("LoadI", <<ctrl, ParmIdx>>, Head(where), 0)),
                 Tail(where), ctrl)

\* The Parse Predicates of a loop from the entry down.
ParseOrder == <<"predicate", "profile_predicate", "loop_limit_check">>

ParseChain(reasons) ==
  LET keep == SelectSeq(ParseOrder, LAMBDA r : r \in reasons)
  IN [i \in 1..Len(keep) |->
        [kind |-> "Parse", op |-> "ParsePredicate", reason |-> keep[i]]]

\* The loop of the model: Parse Predicates of the given reasons, nt Template
\* Assertion Predicates, the loop head with a body of one invariant test, data
\* nodes pinned on the loop entry, and the root.  The result is [g, head, cand].
UnswGraph(reasons, nt, where) ==
  LET r1 == AddPreds(UnswBase, ParseChain(reasons), EntryIdx)
      r2 == AddTemplates(r1[1], nt, r1[2])
      head == Len(r2[1]) + 1
      g1 == Append(r2[1], [NewNode("Loop", <<0, r2[2], 0>>, 1, r2[2]) EXCEPT !.max = 1])
      r3 == AddSeg(g1, [shape |-> "Diamond", cond |-> "InvCmp", op |-> "If",
                        cast |-> "none"], head, 1)
      g2 == set_req(r3[1], head, LoopBackControl, r3[2])
  IN [g |-> Append(AddPinned(g2, where, r2[2]), NewNode("Root", <<0>>, 0, 0)),
      head |-> head, cand |-> head + 3]

PinnedSeqs == UNION {[1..k -> {0, 1}] : k \in 0..MaxPinned}

\* UnswitchedParsePredicates::count_slow_loop_nodes.
count_slow_loop_nodes(g, original_loop_entry, first_slow_loop_node_index) ==
  Cardinality({e \in out_edges(g, original_loop_entry) :
                 e[1] >= first_slow_loop_node_index})

\* can_clone that does not count the outputs of the loop entry.
can_clone_M17(g, predicates, original_loop_entry, first_slow_loop_node_index) ==
  has_parse_predicates(predicates)

\* UnswitchedParsePredicates::can_clone.
can_clone(g, predicates, original_loop_entry, first_slow_loop_node_index) ==
  LET entry_outcnt == outcnt(g, original_loop_entry)
  IN IF entry_outcnt > 3 /\ has_parse_predicates(predicates)
     THEN LET slow_loop_node_count ==
                count_slow_loop_nodes(g, original_loop_entry, first_slow_loop_node_index)
          IN slow_loop_node_count * 2 = entry_outcnt - 1
     ELSE has_parse_predicates(predicates)

\* PhaseIdealLoop::create_new_if_for_predicate(old_proj, new_entry, reason,
\* Op_ParsePredicate, slow_loop): a new Parse Predicate of the reason of the old
\* one below new_entry, with its two projections and the uncommon trap; the
\* result is <<graph, new success projection>>.
create_new_if_for_predicate(g, old_proj, new_entry) ==
  AddPred(g, [kind |-> "Parse", op |-> "ParsePredicate",
              reason |-> g[In(g, old_proj, 0)].reason], new_entry)

\* ParsePredicates::clone_parse_predicate: <<graph, new entry>>.
clone_parse_predicate(r, regular_predicate_block) ==
  IF regular_predicate_block.parse_predicate.node # 0
  THEN create_new_if_for_predicate(r[1], regular_predicate_block.parse_predicate.success_proj,
                                   r[2])
  ELSE r

\* ParsePredicates::clone: the Parse Predicates of the three blocks are created
\* anew below new_entry, the Loop Predicate block first.
ParsePredicates_clone(g, predicates, new_entry) ==
  clone_parse_predicate(
    clone_parse_predicate(
      clone_parse_predicate(<<g, new_entry>>, predicates.loop_predicate_block),
      predicates.profiled_loop_predicate_block),
    predicates.loop_limit_check_predicate_block)

\* UnswitchedLoop::create_parse_predicates: [g, fast_loop_entry, slow_loop_entry].
create_parse_predicates(g, predicates, original_loop_entry, fast_loop_entry, slow_loop_entry, first_slow_loop_node_index) ==
  IF can_clone(g, predicates, original_loop_entry, first_slow_loop_node_index)
  THEN LET f == ParsePredicates_clone(g, predicates, fast_loop_entry)
           s == ParsePredicates_clone(f[1], predicates, slow_loop_entry)
       IN [g |-> s[1], fast_loop_entry |-> f[2], slow_loop_entry |-> s[2]]
  ELSE [g |-> g, fast_loop_entry |-> fast_loop_entry, slow_loop_entry |-> slow_loop_entry]

\* The Template Assertion Predicates of a block from the first one (below the
\* entry of the block) down to the last one.
RECURSIVE templates_of(_, _, _)
templates_of(g, n, entry) ==
  IF n = entry \/ ~is_TemplateAssertionPredicate(g, n) THEN <<>>
  ELSE Append(templates_of(g, In(g, n, 0), entry), n)

\* TemplateAssertionPredicateBlock::has_any and first.
has_any(block) == block.last # block.entry
first(g, block) == templates_of(g, block.last, block.entry)[1]

\* PhaseIdealLoop::replace_ctrl_same_depth(node, new_ctrl).
replace_ctrl_same_depth(g, node, new_ctrl) ==
  [set_req(g, node, 0, new_ctrl) EXCEPT ![node].idom = new_ctrl]

\* move_to_fast_loop that leaves the templates above the unswitch If.
move_to_fast_loop_M18(g, block, new_entry_to_templates, unswitch_if_node) ==
  <<g, new_entry_to_templates>>

\* UnswitchedTemplateAssertionPredicates::move_to_fast_loop: <<graph, last>>.
move_to_fast_loop(g, block, new_entry_to_templates, unswitch_if_node) ==
  LET rewire_unswitch_if == replace_ctrl_same_depth(g, unswitch_if_node, block.entry)
      rewire_templates == replace_ctrl_same_depth(rewire_unswitch_if, first(g, block),
                                                  new_entry_to_templates)
  IN <<rewire_templates, block.last>>

\* NodeInClonedLoop::check.
NodeInClonedLoop_check(node, first_node_index_in_cloned_loop, old_new) ==
  node >= first_node_index_in_cloned_loop

\* NodeInOriginalLoop::check.
NodeInOriginalLoop_check(node, first_node_index_in_cloned_loop, old_new) ==
  IF node < first_node_index_in_cloned_loop
  THEN LET cloned_node == IF node <= Len(old_new) THEN old_new[node] ELSE 0
       IN cloned_node # 0 /\ cloned_node >= first_node_index_in_cloned_loop
  ELSE FALSE

\* NodeInTargetLoop::check of the given strategy.
check(strategy, node, first_node_index_in_cloned_loop, old_new) ==
  IF strategy = "NodeInClonedLoop"
  THEN NodeInClonedLoop_check(node, first_node_index_in_cloned_loop, old_new)
  ELSE NodeInOriginalLoop_check(node, first_node_index_in_cloned_loop, old_new)

\* Node::del_out(n): the last occurrence of n in the output array is
\* overwritten by the last element, and the array gets shorter by one.
del_out(out, n) ==
  LET p == CHOOSE i \in 1..Len(out) :
             out[i] = n /\ \A j \in (i + 1)..Len(out) : out[j] # n
  IN SubSeq([out EXCEPT ![p] = out[Len(out)]], 1, Len(out) - 1)

\* The loop of update_data_dependencies_to_clone that does not step back after
\* an output left the array.
RECURSIVE update_data_dependencies_to_clone_M19(_, _, _, _, _, _)
update_data_dependencies_to_clone_M19(g, out, i, imax, cloned_template, t) ==
  IF i >= imax THEN g
  ELSE LET node == out[i + 1]
       IN IF ~is_CFG(g, node) /\ check(t.strategy, node, t.first, t.old_new)
          THEN update_data_dependencies_to_clone_M19(
                 set_req(g, node, 0, cloned_template), del_out(out, node),
                 i + 1, imax - 1, cloned_template, t)
          ELSE update_data_dependencies_to_clone_M19(g, out, i + 1, imax,
                                                     cloned_template, t)

\* TemplateAssertionPredicate::update_data_dependencies_to_clone from position i
\* of the output array 'out' of the old template (DUIterator_Fast i, imax);
\* t is the strategy with its fields.
RECURSIVE update_data_dependencies_to_clone(_, _, _, _, _, _)
update_data_dependencies_to_clone(g, out, i, imax, cloned_template, t) ==
  IF i >= imax THEN g
  ELSE LET node == out[i + 1]
       IN IF ~is_CFG(g, node) /\ check(t.strategy, node, t.first, t.old_new)
          THEN update_data_dependencies_to_clone(
                 set_req(g, node, 0, cloned_template), del_out(out, node),
                 (i - 1) + 1, imax - 1, cloned_template, t)
          ELSE update_data_dependencies_to_clone(g, out, i + 1, imax,
                                                 cloned_template, t)

\* init_new_template that leaves the control input of the cloned template.
init_new_template_M33(g, cloned_template, new_ctrl, new_init_bool, new_last_value) ==
  LET g1 == set_req(g, cloned_template, InitValue, new_init_bool)
  IN set_req(g1, cloned_template, LastValue, new_last_value)

\* TemplateAssertionPredicate::init_new_template.
init_new_template(g, cloned_template, new_ctrl, new_init_bool, new_last_value) ==
  LET g1 == set_req(g, cloned_template, InitValue, new_init_bool)
      g2 == set_req(g1, cloned_template, LastValue, new_last_value)
  IN replace_ctrl_same_depth(g2, cloned_template, new_ctrl)

\* TemplateAssertionPredicate::create_and_init: the graph with the new template
\* as its last node; 'out' is the output array of the old template.
create_and_init(g, template, out, new_ctrl, new_init_bool, new_last_value, t) ==
  LET cloned_template == unique(g)
      g1 == Append(g, g[template])
      g2 == update_data_dependencies_to_clone(g1, out, 0, Len(out), cloned_template, t)
  IN init_new_template(g2, cloned_template, new_ctrl, new_init_bool, new_last_value)

\* CloneAssertionPredicateBool::clone run to its end: [g, d].
\* One iteration of the loop of CloneAssertionPredicateBool::clone: [g, d].
clone_bool_step(g, d, current) ==
  LET popped(tr) == pop_opaque_loop_node(tr.g, tr.d, tr.node)
  IN IF is_Opaque1(g, current)
     THEN popped(transform_opaque_loop_node(g, d, current))
     ELSE IF next_unvisited_input(g, d.stack) # 0
     THEN [g |-> g, d |-> [d EXCEPT !.stack = push_next_unvisited_input(g, d.stack)]]
     ELSE pop_node(g, d, current)

RECURSIVE clone_bool_run(_)
clone_bool_run(r) ==
  IF ~is_not_empty(r.d.stack) THEN r
  ELSE clone_bool_run(clone_bool_step(r.g, [r.d EXCEPT !.current = top(r.d.stack)],
                                      top(r.d.stack)))

clone_bool_loop(g, d) == clone_bool_run([g |-> g, d |-> d])

\* The graph and the Bool a finished CloneAssertionPredicateBool::clone returns.
cloned_bool(r) == <<r.g, r.d.current>>

\* TemplateAssertionPredicateBool::clone: <<graph, new Bool>>.
TemplateAssertionPredicateBool_clone(g, source_bool) ==
  cloned_bool(clone_bool_loop(g, CloneAssertionPredicateBool(g, source_bool, "CloneOpaqueLoopNodes")))

\* CloneTemplateAssertionPredicate::create_from: the bools of the template are
\* cloned and a copy of the template with the new bools is put below new_ctrl.
\* The graphs this gives, one for each order the output array of the template
\* can have, with the new template as the last node.
create_from(g, new_ctrl, template, out_orders, t) ==
  LET with_bools(b1, b2) ==
        {create_and_init(b2[1], template, out, new_ctrl, b1[2], b2[2], t) :
           out \in out_orders}
      with_init_bool(b1) ==
        with_bools(b1, TemplateAssertionPredicateBool_clone(b1[1], In(g, template, LastValue)))
  IN with_init_bool(TemplateAssertionPredicateBool_clone(g, In(g, template, InitValue)))


\* The output array of n in one of the orders it can have.
RECURSIVE ascending(_)
ascending(S) ==
  IF S = {} THEN <<>>
  ELSE LET m == CHOOSE x \in S : \A y \in S : x <= y
       IN <<m>> \o ascending(S \ {m})

fast_outs(g, n) ==
  LET a == ascending(outs(g, n))
  IN {[i \in 1..Len(a) |-> a[p[i]]] : p \in Permutations(1..Len(a))}

\* The locals of UnswitchedLoop::unswitch and of the objects it creates.
NoUnswitchedLoop ==
  [fast_loop_head |-> 0, original_loop_entry |-> 0, templates |-> <<>>,
   unswitch_if_node |-> 0, first_slow_loop_node_index |-> 0, old_new |-> <<>>,
   fast_loop_entry |-> 0, slow_loop_entry |-> 0, can_clone |-> FALSE, k |-> 0,
   start |-> <<>>, pre |-> <<>>, template |-> 0, strategy |-> "none",
   target |-> 0, chain_tail |-> 0, inserted |-> <<>>, todo |-> <<>>,
   mode |-> "none", new_ctrl |-> 0, initialized |-> 0]

\* The loops that get unswitched: a loop with any of the three Parse Predicates,
\* Template Assertion Predicates and pinned data nodes above its head; cur is
\* the unswitching candidate.
InitUnsw ==
  /\ \E reasons \in SUBSET {"predicate", "profile_predicate", "loop_limit_check"},
        nt \in 0..MaxTemplates, where \in PinnedSeqs :
       \E u \in {UnswGraph(reasons, nt, where)} :
          /\ nodes = u.g
          /\ loops = <<[head |-> u.head]>>
          /\ cur = u.cand
  /\ env = [LoopUnswitching |-> TRUE, debug |-> TRUE, budget |-> 4 * Len(nodes)]
  /\ pc = "unswitch"
  /\ res = "none"
  /\ seen = 0
  /\ last = NoUnswitchedLoop
  /\ dfs = NoDfs

\* UnswitchedLoop(loop, old_new): the Predicates above the loop are looked up.
NewUnswitchedLoop ==
  /\ pc = "unswitch"
  /\ \E head \in {loops[1].head} :
     \E entry \in {In(nodes, head, EntryControl)} :
     \E predicates \in {Predicates(nodes, entry)} :
     \E block \in {predicates.assertion_predicate_block.template_assertion_predicate_block} :
        /\ res' = predicates
        /\ last' = [NoUnswitchedLoop EXCEPT
                      !.fast_loop_head = head,
                      !.original_loop_entry = entry,
                      !.templates = templates_of(nodes, block.last, block.entry),
                      !.start = nodes]
  /\ pc' = "constructed"
  /\ UNCHANGED <<nodes, loops, env, cur, seen, dfs>>

\* unswitch_if.create(unswitching_candidate).
CreateUnswitchIf ==
  /\ pc = "constructed"
  /\ nodes' = UnswitchIf_create(nodes, last.original_loop_entry, cur)
  /\ last' = [last EXCEPT !.unswitch_if_node = unique(nodes)]
  /\ pc' = "selector"
  /\ UNCHANGED <<loops, env, cur, res, seen, dfs>>

\* clone_loop(loop, old_new, ..., unswitch_if_node) and the two projections of
\* the unswitch If as the first entries of the two loops.
CloneLoop ==
  /\ pc = "selector"
  /\ LET old_new == old_new_of(nodes, 1)
     IN /\ nodes' = clone_loop(nodes, 1, 2, last.fast_loop_head, last.unswitch_if_node)
        /\ loops' = Append(loops, [head |-> old_new[last.fast_loop_head]])
        /\ last' = [last EXCEPT
                      !.first_slow_loop_node_index = unique(nodes),
                      !.old_new = old_new,
                      !.fast_loop_entry = proj_out(nodes, last.unswitch_if_node, 1),
                      !.slow_loop_entry = proj_out(nodes, last.unswitch_if_node, 0)]
  /\ pc' = "loop_cloned"
  /\ UNCHANGED <<env, cur, res, seen, dfs>>

\* create_parse_predicates(fast_loop_entry, slow_loop_entry, first_slow_loop_node_index).
CreateParsePredicates ==
  /\ pc = "loop_cloned"
  /\ \E r \in {create_parse_predicates(nodes, res, last.original_loop_entry,
                                       last.fast_loop_entry, last.slow_loop_entry,
                                       last.first_slow_loop_node_index)} :
        /\ nodes' = r.g
        /\ last' = [last EXCEPT
                      !.fast_loop_entry = r.fast_loop_entry,
                      !.slow_loop_entry = r.slow_loop_entry,
                      !.can_clone = can_clone(nodes, res, last.original_loop_entry,
                                              last.first_slow_loop_node_index),
                      !.pre = nodes]
  /\ pc' = "parse_predicates"
  /\ UNCHANGED <<loops, env, cur, res, seen, dfs>>

\* create_template_assertion_predicates for a loop with Template Assertion
\* Predicates: move_to_fast_loop.
MoveToFastLoop ==
  /\ pc = "parse_predicates"
  /\ LET block == res.assertion_predicate_block.template_assertion_predicate_block
     IN /\ has_any(block)
        /\ LET r == move_to_fast_loop(nodes, block, last.fast_loop_entry,
                                      last.unswitch_if_node)
           IN /\ nodes' = r[1]
              /\ last' = [last EXCEPT !.fast_loop_entry = r[2], !.pre = nodes]
  /\ pc' = "templates_moved"
  /\ UNCHANGED <<loops, env, cur, res, seen, dfs>>

\* clone_to_slow_loop: the next Template Assertion Predicate of the block is
\* cloned below the new entry of the slow loop (NodeInClonedLoop strategy).
CloneToSlowLoop ==
  /\ pc = "templates_moved"
  /\ last.k < Len(last.templates)
  /\ LET template == last.templates[last.k + 1]
         t == [strategy |-> "NodeInClonedLoop",
               first |-> last.first_slow_loop_node_index, old_new |-> last.old_new]
     IN \E g1 \in create_from(nodes, last.slow_loop_entry, template,
                             fast_outs(nodes, template), t) :
          /\ nodes' = g1
          /\ last' = [last EXCEPT !.slow_loop_entry = Len(nodes'),
                                  !.k = @ + 1,
                                  !.pre = nodes,
                                  !.template = template,
                                  !.strategy = "NodeInClonedLoop"]
  /\ pc' = IF last.k + 1 = Len(last.templates) THEN "templates" ELSE "templates_moved"
  /\ UNCHANGED <<loops, env, cur, res, seen, dfs>>

\* create_template_assertion_predicates for a loop without Template Assertion
\* Predicates.
NoTemplateAssertionPredicates ==
  /\ pc = "parse_predicates"
  /\ ~has_any(res.assertion_predicate_block.template_assertion_predicate_block)
  /\ pc' = "templates"
  /\ UNCHANGED <<nodes, loops, env, cur, res, seen, last, dfs>>

\* fix_ctrl_of_loops(fast_loop_entry, slow_loop_entry).
FixCtrlOfLoops ==
  /\ pc = "templates"
  /\ nodes' = fix_ctrl_of_loops(nodes, last.fast_loop_head,
                                last.old_new[last.fast_loop_head],
                                last.fast_loop_entry, last.slow_loop_entry)
  /\ last' = [last EXCEPT !.pre = nodes]
  /\ pc' = "unswitched"
  /\ UNCHANGED <<loops, env, cur, res, seen, dfs>>


\* TemplateAssertionPredicate::kill: the template is marked useless (IGVN
\* removes a useless Template Assertion Predicate later).
kill(g, template) ==
  mark_useless([n \in 1..Len(g) |-> g[n] @@ [useless |-> FALSE]], template)

\* One of the Template Assertion Predicates the loop had before it was
\* unswitched is killed after unswitching.
KillTemplate ==
  /\ pc = "unswitched"
  /\ \E template \in {last.templates[i] : i \in 1..Len(last.templates)} :
       /\ nodes' = kill(nodes, template)
       /\ last' = [last EXCEPT !.pre = nodes, !.template = template]
  /\ pc' = "killed"
  /\ UNCHANGED <<loops, env, cur, res, seen, dfs>>

\* A later transformation of the fast loop clones its last Template Assertion
\* Predicate for the original loop: create_from with the NodeInOriginalLoop
\* strategy of the loop clone.
CloneForOriginalLoop ==
  /\ pc = "unswitched"
  /\ last.templates # <<>>
  /\ LET template == last.templates[Len(last.templates)]
         t == [strategy |-> "NodeInOriginalLoop",
               first |-> last.first_slow_loop_node_index, old_new |-> last.old_new]
     IN \E g1 \in create_from(nodes, In(nodes, template, 0), template,
                             fast_outs(nodes, template), t) :
          /\ nodes' = g1
          /\ last' = [last EXCEPT !.pre = nodes,
                                  !.template = template,
                                  !.strategy = "NodeInOriginalLoop"]
  /\ pc' = "recloned"
  /\ UNCHANGED <<loops, env, cur, res, seen, dfs>>

-----------------------------------------------------------------------------
(* PredicateChain and the visitors that insert predicates into it          *)

\* The node the OpaqueLoopStride nodes of an updated template get as new stride.
NewStride == Con0Idx

\* PhaseIdealLoop::replace_control_same_loop(node, new_control).
replace_control_same_loop(g, node, new_control) ==
  [set_req(g, node, 0, new_control) EXCEPT ![node].idom = new_control]

\* insert_new_predicate that leaves the control input of the tail as it is.
insert_new_predicate_M20(g, tail, new_predicate) ==
  [g |-> g, tail |-> new_predicate.head]

\* PredicateChain::insert_new_predicate: [g, tail].
insert_new_predicate(g, tail, new_predicate) ==
  LET new_entry_for_tail == new_predicate.tail
  IN [g |-> IF is_Loop(g, tail) THEN replace_loop_entry(g, tail, new_entry_for_tail)
            ELSE replace_control_same_loop(g, tail, new_entry_for_tail),
      tail |-> new_predicate.head]

\* PredicateChain::insert_existing_predicate: [g, tail].
insert_existing_predicate(g, tail, existing_predicate) ==
  [g |-> g, tail |-> existing_predicate.head]

\* A Template Assertion Predicate as a Predicate: its head and its tail are the
\* template node.
TemplatePredicate(template) == [head |-> template, tail |-> template]

\* TemplateAssertionPredicateBool::clone_update_opaque_init: <<graph, new Bool>>.
TemplateAssertionPredicateBool_clone_update_opaque_init(g, source_bool) ==
  cloned_bool(clone_bool_loop(g, CloneAssertionPredicateBool(g, source_bool, "CloneWithNewOpaqueInitInput")))

\* TemplateAssertionPredicateBool::clone_remove_opaque_loop_nodes: <<graph, new Bool>>.
TemplateAssertionPredicateBool_clone_remove_opaque_loop_nodes(g, source_bool) ==
  cloned_bool(clone_bool_loop(g, CloneAssertionPredicateBool(g, source_bool, "RemoveOpaqueLoopNodes")))

\* TemplateAssertionPredicate::clone_update_opaque_init: the bools are cloned
\* with the new init value and a copy of the template is put below new_ctrl.
\* The graphs this gives, one for each order the output array of the template
\* can have, with the new template as the last node.
clone_update_opaque_init(g, new_ctrl, template, out_orders, t) ==
  LET with_bools(b1, b2) ==
        {create_and_init(b2[1], template, out, new_ctrl, b1[2], b2[2], t) :
           out \in out_orders}
      with_init_bool(b1) ==
        with_bools(b1, TemplateAssertionPredicateBool_clone_update_opaque_init(
                         b1[1], In(g, template, LastValue)))
  IN with_init_bool(TemplateAssertionPredicateBool_clone_update_opaque_init(
                      g, In(g, template, InitValue)))

\* TemplateAssertionPredicateBool::update_opaque_stride: the OpaqueLoopStride
\* nodes of the bool get new_opaque_stride_input as input.
update_opaque_stride(g, source_bool, new_opaque_stride_input) ==
  [n \in 1..Len(g) |->
     IF n \in ExprReach(g, source_bool) /\ is_OpaqueLoopStride(g, n)
     THEN [g[n] EXCEPT !.in[2] = new_opaque_stride_input] ELSE g[n]]

\* Compile::root().
root(g) == CHOOSE n \in 1..Len(g) : g[n].op = "Root"

\* PhaseIterGVN::add_input_to(n, in).
add_input_to(g, n, in) == [g EXCEPT ![n].in = Append(@, in)]

\* CreateInitializedAssertionPredicate::create without the Halt node.
CreateInitializedAssertionPredicate_create_M23(g, new_ctrl, new_bool) ==
  LET opaque == Len(g) + 1
      if_node == Len(g) + 2
      succ_proj == Len(g) + 3
  IN [g |-> g \o << NewNode("OpaqueAssertionPredicate", <<0, new_bool>>, 0, 0),
                    NewNode("If", <<new_ctrl, opaque>>, 0, new_ctrl),
                    NewNode("IfTrue", <<if_node>>, 0, if_node),
                    NewNode("IfFalse", <<if_node>>, 0, if_node) >>,
      head |-> if_node,
      tail |-> succ_proj]

\* CreateInitializedAssertionPredicate::create: the OpaqueAssertionPredicate of
\* the bool, the If below new_ctrl, its projections, and the Halt node with its
\* frame pointer below the fail projection, which becomes an input
\* of the root.  The result is [g, head, tail]: the
\* graph, the If and its success projection.
CreateInitializedAssertionPredicate_create(g, new_ctrl, new_bool) ==
  LET opaque == Len(g) + 1
      if_node == Len(g) + 2
      succ_proj == Len(g) + 3
      fail_proj == Len(g) + 4
      frame == Len(g) + 5
      halt == Len(g) + 6
      g1 == g \o << NewNode("OpaqueAssertionPredicate", <<0, new_bool>>, 0, 0),
                    NewNode("If", <<new_ctrl, opaque>>, 0, new_ctrl),
                    NewNode("IfTrue", <<if_node>>, 0, if_node),
                    NewNode("IfFalse", <<if_node>>, 0, if_node),
                    NewNode("Parm", <<StartIdx>>, 0, 0),
                    NewNode("Halt", <<fail_proj, frame>>, 0, fail_proj) >>
  IN [g |-> add_input_to(g1, root(g1), halt),
      head |-> if_node,
      tail |-> succ_proj]

\* TemplateAssertionPredicate::create_initialized_predicate: [g, tail, predicate,
\* pre], pre being the graph the new predicate is inserted into.
create_initialized_predicate(g, new_ctrl, template_bool, chain_tail) ==
  LET inserted(initialized_assertion_predicate, r) ==
        [g |-> r.g, tail |-> r.tail,
         predicate |-> [head |-> initialized_assertion_predicate.head,
                        tail |-> initialized_assertion_predicate.tail],
         pre |-> initialized_assertion_predicate.g]
      insert(initialized_assertion_predicate) ==
        inserted(initialized_assertion_predicate,
                 insert_new_predicate(initialized_assertion_predicate.g, chain_tail,
                                      initialized_assertion_predicate))
      create(b) == insert(CreateInitializedAssertionPredicate_create(b[1], new_ctrl, b[2]))
  IN create(TemplateAssertionPredicateBool_clone_remove_opaque_loop_nodes(g, template_bool))

\* The Template Assertion Predicates above the loop head in the order the
\* predicate iterators visit them: from the loop entry up.
RECURSIVE reverse(_)
reverse(s) == IF s = <<>> THEN <<>> ELSE Append(reverse(Tail(s)), Head(s))

\* The Template Assertion Predicates above the loop head in the order of the
\* control chain, from the top down.
templates_above_M31(g, head) ==
  templates_of(g, In(g, head, EntryControl), 0)

templates_above(g, head) ==
  reverse(templates_of(g, In(g, head, EntryControl), 0))

\* AssertionPredicates::clone_to_loop: the CloneAndInitAssertionPredicates
\* visitor with its PredicateChain for the slow loop as target, to be applied to
\* the Template Assertion Predicates of the fast loop.
NewCloneAndInitAssertionPredicates ==
  /\ pc = "unswitched"
  /\ last.templates # <<>>
  /\ LET target_loop_head == last.old_new[last.fast_loop_head]
     IN last' = [last EXCEPT !.mode = "clone",
                             !.target = target_loop_head,
                             !.chain_tail = target_loop_head,
                             !.new_ctrl = In(nodes, target_loop_head, EntryControl),
                             !.todo = templates_above(nodes, last.fast_loop_head),
                             !.pre = nodes]
  /\ pc' = "chain"
  /\ UNCHANGED <<nodes, loops, env, cur, res, seen, dfs>>

\* AssertionPredicates::update: the UpdateAndInitAssertionPredicates visitor
\* with its PredicateChain for one of the two loops, to be applied to the
\* Template Assertion Predicates of this loop.
NewUpdateAndInitAssertionPredicates ==
  /\ pc = "unswitched"
  /\ last.templates # <<>>
  /\ \E loop_head \in {last.fast_loop_head, last.old_new[last.fast_loop_head]} :
       last' = [last EXCEPT !.mode = "update",
                            !.target = loop_head,
                            !.chain_tail = loop_head,
                            !.todo = templates_above(nodes, loop_head),
                            !.pre = nodes]
  /\ pc' = "chain"
  /\ UNCHANGED <<nodes, loops, env, cur, res, seen, dfs>>

\* CloneAndInitAssertionPredicates::create_new_template for the next template
\* the iterator visits: the new template is inserted into the chain.
InsertNewTemplate ==
  /\ pc = "chain"
  /\ last.mode = "clone"
  /\ last.todo # <<>>
  /\ LET template == Head(last.todo)
         t == [strategy |-> "NodeInClonedLoop",
               first |-> last.first_slow_loop_node_index, old_new |-> last.old_new]
     IN \E g1 \in clone_update_opaque_init(nodes, last.new_ctrl, template,
                                          fast_outs(nodes, template), t) :
          \E new_template \in {Len(g1)} :
          \E r \in {insert_new_predicate(g1, last.chain_tail,
                                        TemplatePredicate(new_template))} :
             /\ nodes' = r.g
             /\ last' = [last EXCEPT
                           !.chain_tail = r.tail,
                           !.inserted = Append(@, [head |-> new_template,
                                                   tail |-> new_template,
                                                   new |-> TRUE,
                                                   tail_before |-> last.chain_tail,
                                                   source |-> template]),
                           !.template = new_template,
                           !.initialized = 0,
                           !.pre = g1]
  /\ pc' = "initialize"
  /\ UNCHANGED <<loops, env, cur, res, seen, dfs>>

\* UpdateAndInitAssertionPredicates::visit(TemplateAssertionPredicate&) up to
\* initialize(): the stride of the template is updated and the template is
\* inserted into the chain as it is.
InsertExistingTemplate ==
  /\ pc = "chain"
  /\ last.mode = "update"
  /\ last.todo # <<>>
  /\ LET template == Head(last.todo)
         g1 == update_opaque_stride(nodes, In(nodes, template, LastValue), NewStride)
         r == insert_existing_predicate(g1, last.chain_tail, TemplatePredicate(template))
     IN /\ nodes' = r.g
        /\ last' = [last EXCEPT
                      !.chain_tail = r.tail,
                      !.inserted = Append(@, [head |-> template, tail |-> template,
                                              new |-> FALSE,
                                              tail_before |-> last.chain_tail,
                                              source |-> template]),
                      !.template = template,
                      !.new_ctrl = In(nodes, template, 0),
                      !.initialized = 0,
                      !.pre = g1]
  /\ pc' = "initialize"
  /\ UNCHANGED <<loops, env, cur, res, seen, dfs>>

\* TemplateAssertionPredicate::initialize: create_initialized_predicate for the
\* init value, then for the last value of the template just inserted.
CreateInitializedPredicate ==
  /\ pc = "initialize"
  /\ \E template_bool \in {In(nodes, last.template,
                                IF last.initialized = 0 THEN InitValue ELSE LastValue)} :
     \E r \in {create_initialized_predicate(nodes, last.new_ctrl, template_bool,
                                            last.chain_tail)} :
        /\ nodes' = r.g
        /\ last' = [last EXCEPT
                      !.chain_tail = r.tail,
                      !.inserted = Append(@, [head |-> r.predicate.head,
                                              tail |-> r.predicate.tail,
                                              new |-> TRUE,
                                              tail_before |-> last.chain_tail,
                                              source |-> last.template]),
                      !.initialized = @ + 1,
                      !.todo = IF last.initialized = 1 THEN Tail(@) ELSE @,
                      !.pre = r.pre]
  /\ pc' = IF last.initialized = 1 THEN "chain" ELSE "initialize"
  /\ UNCHANGED <<loops, env, cur, res, seen, dfs>>

NextUnsw ==
  \/ NewUnswitchedLoop
  \/ CreateUnswitchIf
  \/ CloneLoop
  \/ CreateParsePredicates
  \/ MoveToFastLoop
  \/ CloneToSlowLoop
  \/ NoTemplateAssertionPredicates
  \/ FixCtrlOfLoops
  \/ KillTemplate
  \/ CloneForOriginalLoop
  \/ NewCloneAndInitAssertionPredicates
  \/ NewUpdateAndInitAssertionPredicates
  \/ InsertNewTemplate
  \/ InsertExistingTemplate
  \/ CreateInitializedPredicate

SpecUnsw == InitUnsw /\ [][NextUnsw]_vars



-----------------------------------------------------------------------------
(* Properties of unswitching a loop with predicates *)

\* create_parse_predicates has returned.
AfterCreateParsePredicates ==
  pc \in {"parse_predicates", "templates_moved", "templates", "unswitched"}

\* The data nodes pinned on the original loop entry before unswitching.
PinnedOnEntry ==
  {n \in outs(last.start, last.original_loop_entry) : ~is_CFG(last.start, n)}

\* n belongs to the body of the loop being unswitched and clone_loop gave it a
\* clone in the slow loop.
InLoopWithSlowClone(n) ==
  /\ last.start[n].loop = 1
  /\ last.old_new[n] >= last.first_slow_loop_node_index
  /\ nodes[last.old_new[n]].loop = 2

\* The Parse Predicates unswitching created.
NewParsePredicates == {n \in parse_predicates(nodes) : n > Len(last.start)}

\* The nodes on the control path from n up to the unswitch If.
RECURSIVE PathToUnswitchIf(_, _)
PathToUnswitchIf(g, n) ==
  IF n = 0 \/ n = last.unswitch_if_node \/ n = StartIdx THEN {}
  ELSE {n} \cup PathToUnswitchIf(g, In(g, n, 0))

\* C17: Parse Predicates are cloned to the fast and the slow loop only if the
\* loop has a Parse Predicate and every data node pinned on the original loop
\* entry belongs to the loop body and has a clone in the slow loop; when they
\* are cloned, can_clone() was true and both loops get one new Parse Predicate
\* for each Parse Predicate of the loop; a data node on the loop entry that is
\* not part of the loop prevents every new Parse Predicate.
C17_CanClone ==
  AfterCreateParsePredicates =>
    /\ last.can_clone =>
         /\ parse_predicates(last.start) # {}
         /\ \A n \in PinnedOnEntry : InLoopWithSlowClone(n)
    /\ NewParsePredicates # {} <=> last.can_clone
    /\ last.can_clone =>
         \A entry \in {last.fast_loop_entry, last.slow_loop_entry} :
           Cardinality(NewParsePredicates \cap PathToUnswitchIf(nodes, entry))
             = Cardinality(parse_predicates(last.start))
    /\ (\E n \in PinnedOnEntry : last.start[n].loop # 1) => NewParsePredicates = {}

\* Parse Predicates were cloned for a loop with a data node of its body pinned
\* on the loop entry.
C17_Witness ==
  /\ pc = "parse_predicates"
  /\ last.can_clone
  /\ PinnedOnEntry # {}
  /\ NewParsePredicates # {}

\* A loop with a Parse Predicate and a data node outside of it on the loop entry
\* got no new Parse Predicate.
C17_WitnessOutside ==
  /\ pc = "parse_predicates"
  /\ parse_predicates(last.start) # {}
  /\ \E n \in PinnedOnEntry : last.start[n].loop # 1
  /\ NewParsePredicates = {}


\* unswitch() has returned for a loop with Template Assertion Predicates.
UnswitchedWithTemplates ==
  pc \in {"unswitched", "killed"} /\ last.templates # <<>>

\* The heads of the fast and of the slow loop.
UnswitchedHeads == {last.fast_loop_head, last.old_new[last.fast_loop_head]}

\* The Template Assertion Predicates between the unswitch If and the loop head.
TemplatesAbove(head) ==
  {n \in PathToUnswitchIf(nodes, In(nodes, head, EntryControl)) :
     is_TemplateAssertionPredicate(nodes, n)}

\* The success projections of the Initialized Assertion Predicates between the
\* unswitch If and the loop head.
InitializedAbove(head) ==
  {n \in PathToUnswitchIf(nodes, In(nodes, head, EntryControl)) :
     InitializedAssertionPredicate_is_success_proj(nodes, n)}

OriginalTemplates == {last.templates[i] : i \in 1..Len(last.templates)}

\* The Template Assertion Predicates that are marked useless.
UselessTemplates ==
  {n \in 1..Len(nodes) : /\ is_TemplateAssertionPredicate(nodes, n)
                         /\ "useless" \in DOMAIN nodes[n]
                         /\ nodes[n].useless}

BoolNodes(b) == ExprReach(nodes, b)

JustCloned ==
  pc \in {"templates_moved", "templates", "recloned"} /\ last.strategy # "none"

\* The outputs of the old template the strategy of the clone answers true for.
Qualifying ==
  {n \in outs(last.pre, last.template) :
     /\ ~is_CFG(last.pre, n)
     /\ check(last.strategy, n, last.first_slow_loop_node_index, last.old_new)}

\* C19: after a Template Assertion Predicate was cloned for a target loop, every
\* data output of the old template that the strategy of the target loop accepts
\* has the new template as control input, whatever the order of the output
\* array, and every other output of the old template still has the old
\* template as control input; no other input of a node that existed changed.
C19_DataDependencies ==
  JustCloned =>
    /\ \A e \in out_edges(last.pre, last.template) :
         In(nodes, e[1], e[2]) = IF e[1] \in Qualifying THEN Len(nodes)
                                 ELSE last.template
    /\ \A n \in 1..Len(last.pre) :
         n \notin Qualifying => nodes[n] = last.pre[n]
    /\ \A n \in Qualifying :
         nodes[n] = [last.pre[n] EXCEPT !.in[1] = Len(nodes)]

\* A template with two data outputs in the slow loop, data outputs outside of
\* it and the two loop heads as outputs was cloned for the slow loop.
C19_Witness ==
  /\ JustCloned
  /\ last.strategy = "NodeInClonedLoop"
  /\ Cardinality(Qualifying) >= 2
  /\ \E n \in outs(last.pre, last.template) \ Qualifying : ~is_CFG(last.pre, n)
  /\ \E n \in outs(last.pre, last.template) :
       is_CFG(last.pre, n) /\ n >= last.first_slow_loop_node_index

\* A template with a data output in the original loop and a data output outside
\* of it was cloned for the original loop.
C19_WitnessOriginalLoop ==
  /\ JustCloned
  /\ last.strategy = "NodeInOriginalLoop"
  /\ Qualifying # {}
  /\ \E n \in outs(last.pre, last.template) \ Qualifying : ~is_CFG(last.pre, n)


\* The control input of a node of a predicate chain: the entry edge of a loop
\* head, input 0 of any other node.
chain_ctrl_idx(g, n) == IF is_Loop(g, n) THEN EntryControl ELSE 0

chain_ctrl(g, n) == In(g, n, chain_ctrl_idx(g, n))

\* A predicate has just been inserted into the PredicateChain.
InChain == pc \in {"chain", "initialize"} /\ last.inserted # <<>>

\* Every input edge of the graph but the control input of 'node' is as in pre.
OnlyControlOf(node) ==
  /\ Len(nodes) = Len(last.pre)
  /\ \A m \in 1..Len(nodes) :
       /\ nodes[m].op = last.pre[m].op
       /\ Len(nodes[m].in) = Len(last.pre[m].in)
       /\ \A i \in 1..Len(nodes[m].in) :
            (m # node \/ i - 1 # chain_ctrl_idx(nodes, node))
              => nodes[m].in[i] = last.pre[m].in[i]

\* C20: insert_new_predicate sets the control input of the chain tail (the entry
\* edge when the tail is the loop head) to the tail of the new predicate, changes
\* no other edge, and makes the head of the new predicate the chain tail;
\* insert_existing_predicate makes the head of the predicate the chain tail and
\* changes no edge.  The predicates inserted so far form one control chain: the
\* first one is the entry of the loop head, and each is entered from the tail of
\* the one inserted after it.
C20_Chain ==
  InChain =>
    LET ins == last.inserted
        p == ins[Len(ins)]
    IN /\ last.chain_tail = p.head
       /\ IF p.new
          THEN /\ chain_ctrl(nodes, p.tail_before) = p.tail
               /\ OnlyControlOf(p.tail_before)
          ELSE nodes = last.pre
       /\ chain_ctrl(nodes, last.target) = ins[1].tail
       /\ \A i \in 1..(Len(ins) - 1) :
            chain_ctrl(nodes, ins[i].head) = ins[i + 1].tail
       /\ \A i \in 1..Len(ins) :
            ins[i].tail = ins[i].head \/ In(nodes, ins[i].tail, 0) = ins[i].head

\* Two templates with their Initialized Assertion Predicates were inserted as new
\* predicates above the head of the slow loop.
C20_Witness ==
  /\ InChain
  /\ last.mode = "clone"
  /\ Len(last.inserted) >= 6
  /\ is_Loop(nodes, last.inserted[1].tail_before)
  /\ is_If(nodes, last.inserted[3].head)
  /\ is_TemplateAssertionPredicate(nodes, last.inserted[4].head)

\* An existing template was inserted on top of the new Initialized Assertion
\* Predicates of the template below it.
C20_WitnessExisting ==
  /\ InChain
  /\ last.mode = "update"
  /\ Len(last.inserted) >= 4
  /\ ~last.inserted[4].new
  /\ last.inserted[3].new
  /\ pc = "initialize"


(***************************************************************************)
(* CountedLoopReserveKit: a loop is cloned behind a selector If with a      *)
(* constant condition; the destructor reverts to the reserved copy unless   *)
(* the user of the kit called use_new().                                    *)
(***************************************************************************)

\* The heads of the loops a kit is constructed for: 'valid' is the answer of
\* is_valid_counted_loop(T_INT), 'slp' the value of slp_max_unroll().
KitHeadKinds ==
  { [op |-> "Loop", kind |-> "normal", valid |-> FALSE, slp |-> 0],
    [op |-> "CountedLoop", kind |-> "main", valid |-> TRUE, slp |-> 0],
    [op |-> "CountedLoop", kind |-> "main", valid |-> FALSE, slp |-> 0],
    [op |-> "CountedLoop", kind |-> "normal", valid |-> TRUE, slp |-> 0],
    [op |-> "CountedLoop", kind |-> "post", valid |-> TRUE, slp |-> 0],
    [op |-> "CountedLoop", kind |-> "post", valid |-> TRUE, slp |-> 1] }

KitGraph(h, max, segs) ==
  LET g == LoopGraph([op |-> h.op, uo |-> FALSE, kind |-> h.kind], 0, max, segs)
  IN [g EXCEPT ![HeadIdx] = g[HeadIdx] @@ [valid |-> h.valid, slp |-> h.slp]]

is_valid_counted_loop(g, cl) == "valid" \in DOMAIN g[cl] /\ g[cl].valid

is_main_loop(g, cl) == g[cl].kind = "main"

is_post_loop(g, cl) == g[cl].kind = "post"

slp_max_unroll(g, cl) == IF "slp" \in DOMAIN g[cl] THEN g[cl].slp ELSE 0

\* A kit before create_reserve(): the constructor's initializer list.
NewKit(lpt, active) ==
  [lpt |-> lpt, lp |-> 0, iff |-> 0, lp_reserved |-> 0, has_reserved |-> FALSE,
   use_new |-> FALSE, active |-> active]

create_reserve_version_of_loop_M21(g, l, l2, head) ==
  LET entry == In(g, skip_strip_mined(g, head), EntryControl)
      iff == Len(g) + 1
      g1 == g \o << NewNode("If", <<entry, Con0Idx>>, 0, entry),
                    NewNode("IfTrue", <<iff>>, 0, iff),
                    NewNode("IfFalse", <<iff>>, 0, iff) >>
      on == old_new_of(g1, l)
      g2 == clone_loop(g1, l, l2, head, iff)
      g3 == set_req(g2, head, EntryControl, iff + 1)
  IN [g |-> set_req(g3, on[head], EntryControl, iff + 2), iff |-> iff,
      slow_head |-> on[head]]

\* create_reserve_version_of_loop: 'If (1) ? original loop : clone', the clone
\* being loop l2.  The result holds the graph, the selector If handed to the kit
\* with set_iff, and the head of the clone.
create_reserve_version_of_loop(g, l, l2, head) ==
  LET entry == In(g, skip_strip_mined(g, head), EntryControl)
      iff == Len(g) + 1
      iffast == iff + 1
      ifslow == iff + 2
      g1 == g \o << NewNode("If", <<entry, Con1Idx>>, 0, entry),
                    NewNode("IfTrue", <<iff>>, 0, iff),
                    NewNode("IfFalse", <<iff>>, 0, iff) >>
      on == old_new_of(g1, l)
      g2 == clone_loop(g1, l, l2, head, iff)
      g3 == set_req(g2, head, EntryControl, iffast)
  IN [g |-> set_req(g3, on[head], EntryControl, ifslow), iff |-> iff,
      slow_head |-> on[head]]

can_reserve_M36(g, lt, kit) ==
  LET head == head_of(lt, kit.lpt)
  IN /\ is_CountedLoop(g, head)
     /\ is_valid_counted_loop(g, head)
     /\ is_main_loop(g, head) \/ (is_post_loop(g, head) /\ slp_max_unroll(g, head) > 0)

\* The checks of create_reserve() before the loop is cloned.
can_reserve(g, lt, kit) ==
  LET head == head_of(lt, kit.lpt)
  IN /\ kit.active
     /\ is_CountedLoop(g, head)
     /\ is_valid_counted_loop(g, head)
     /\ is_main_loop(g, head) \/ (is_post_loop(g, head) /\ slp_max_unroll(g, head) > 0)

\* The checks of create_reserve() on the reserved loop.
reserved_as_expected(g, kit, lp_reserved) ==
  LET ifslow_pred == In(g, skip_strip_mined(g, lp_reserved), EntryControl)
      iff == In(g, ifslow_pred, 0)
  IN /\ is_CountedLoop(g, lp_reserved)
     /\ is_IfFalse(g, ifslow_pred)
     /\ is_If(g, iff)
     /\ iff = kit.iff
     /\ is_ConI(g, In(g, iff, 1))

\* create_reserve(): the graph, the loop tree and the kit afterwards.
create_reserve(g, lt, kit) ==
  IF ~can_reserve(g, lt, kit) THEN [g |-> g, lt |-> lt, kit |-> kit]
  ELSE LET head == head_of(lt, kit.lpt)
           with_reserved(r) ==
             [g |-> r.g, lt |-> Append(lt, [head |-> r.slow_head]),
              kit |-> [kit EXCEPT !.lp = head, !.iff = r.iff, !.lp_reserved = r.slow_head,
                         !.has_reserved =
                           reserved_as_expected(r.g, [kit EXCEPT !.iff = r.iff], r.slow_head)]]
       IN with_reserved(create_reserve_version_of_loop(g, kit.lpt, Len(lt) + 1, head))

\* The constructor.
CountedLoopReserveKit(g, lt, lpt, active) == create_reserve(g, lt, NewKit(lpt, active))

\* use_new(): the transformed loop is kept.
use_new(kit) == [kit EXCEPT !.use_new = TRUE]

\* The destructor: the graph afterwards.
CountedLoopReserveKit_destroy(g, kit) ==
  IF ~kit.active THEN g
  ELSE IF kit.has_reserved /\ ~kit.use_new THEN set_req(g, kit.iff, 1, Con0Idx)
  ELSE g

InitKit ==
  /\ \E h \in KitHeadKinds, segs \in SegSeqs : nodes = KitGraph(h, MaxUnswitchMax, segs)
  /\ loops = <<[head |-> HeadIdx]>>
  /\ \E b \in Budgets(nodes) \ {Len(nodes) - 1} :
       env = [LoopUnswitching |-> TRUE, debug |-> FALSE, budget |-> b]
  /\ pc = "idle"
  /\ cur = 0
  /\ res = "none"
  /\ seen = 0
  /\ last = NoInfo
  /\ dfs = NoDfs

\* A loop transformation constructs a kit for loop l.
NewCountedLoopReserveKit(l, active) ==
  /\ pc = "idle"
  /\ Len(loops) < MaxLoops
  /\ \E r \in {CountedLoopReserveKit(nodes, loops, l, active)} :
       /\ nodes' = r.g
       /\ loops' = r.lt
       /\ last' = [kit |-> r.kit, pre |-> nodes, destroyed |-> FALSE]
  /\ cur' = l
  /\ pc' = "kit"
  /\ UNCHANGED <<env, res, seen, dfs>>

\* The transformation succeeded on the original loop: it keeps it.
UseNew ==
  /\ pc = "kit"
  /\ ~last.kit.use_new
  /\ last' = [last EXCEPT !.kit = use_new(last.kit)]
  /\ UNCHANGED <<nodes, loops, env, pc, cur, res, seen, dfs>>

\* The kit goes out of scope.
DeleteCountedLoopReserveKit ==
  /\ pc = "kit"
  /\ nodes' = CountedLoopReserveKit_destroy(nodes, last.kit)
  /\ last' = [last EXCEPT !.destroyed = TRUE]
  /\ pc' = "destroyed"
  /\ UNCHANGED <<loops, env, cur, res, seen, dfs>>

NextKit ==
  \/ \E l \in 1..Len(loops), active \in BOOLEAN : NewCountedLoopReserveKit(l, active)
  \/ UseNew
  \/ DeleteCountedLoopReserveKit
  \/ \E l \in 1..Len(loops) : PolicyUnswitching(l)
  \/ DoUnswitching
  \/ SkipUnswitching

SpecKit == InitKit /\ [][NextKit]_vars

\* The last operation constructed a kit that cloned its loop.
KitCloned == "kit" \in DOMAIN last /\ last.kit.lp_reserved # 0

\* C21: a kit that cloned its loop has has_reserved set, and its selector If is
\* entered from the old loop entry, has the true projection as the entry of the
\* original loop and the false projection as the entry of the reserved clone;
\* until the kit is destroyed the condition of the If is the constant 1, and
\* after the destruction it is the constant 0 exactly when use_new was not
\* called, and the constant 1 otherwise.  A kit that did not clone the loop
\* leaves the graph unchanged, also at its destruction.
C21_Revert ==
  "kit" \in DOMAIN last =>
    LET kit == last.kit
        cond == In(nodes, kit.iff, 1)
    IN IF KitCloned
       THEN /\ kit.active /\ kit.has_reserved
            /\ is_If(nodes, kit.iff)
            /\ In(nodes, kit.iff, 0) = In(last.pre, kit.lp, EntryControl)
            /\ In(nodes, kit.lp, EntryControl) = proj_out(nodes, kit.iff, 1)
            /\ In(nodes, kit.lp_reserved, EntryControl) = proj_out(nodes, kit.iff, 0)
            /\ is_ConI(nodes, cond)
            /\ nodes[cond].val = (IF last.destroyed /\ ~kit.use_new THEN 0 ELSE 1)
       ELSE nodes = last.pre /\ ~kit.has_reserved

\* A kit that cloned its loop was destroyed without use_new: control is back on
\* the reserved clone.
C21_Witness ==
  /\ KitCloned
  /\ last.destroyed
  /\ ~last.kit.use_new
  /\ nodes[In(nodes, last.kit.iff, 1)].val = 0

\* A kit that cloned its loop was destroyed after use_new.
C21_WitnessUseNew ==
  /\ KitCloned
  /\ last.destroyed
  /\ last.kit.use_new
  /\ nodes[In(nodes, last.kit.iff, 1)].val = 1


\* The CheckCastPP nodes pinned on a projection of the unswitching candidate
\* before do_unswitching.
CandidateCasts ==
  {u \in 1..Len(last.pre) :
     /\ last.pre[u].op = "CheckCastPP"
     /\ In(last.pre, u, 0) \in outs(last.pre, last.cand)}

\* Those of them with a loop-invariant input 1.
InvariantCasts ==
  {u \in CandidateCasts : is_invariant(last.pre, last.loop, In(last.pre, u, 1))}

\* The CheckCastPP nodes created by do_unswitching that are no clone of a node
\* of the loop.
HoistedCopies ==
  {n \in (Len(last.pre) + 1)..Len(nodes) :
     /\ nodes[n].op = "CheckCastPP"
     /\ \A m \in 1..Len(last.old_new) : last.old_new[m] # n}

\* C22: after do_unswitching every CheckCastPP that was pinned on a projection
\* of the candidate with a loop-invariant input 1 has as input 1 a new copy of
\* itself, pinned on the selector projection of the polarity of the cast's own
\* projection and with the cast's old input 1; the clone of the cast in the slow
\* loop has the same copy as input 1; there is one copy per such cast, and a
\* cast with a loop-variant input keeps its input.
C22_HoistedCasts ==
  JustUnswitched =>
    /\ \A u \in InvariantCasts :
         LET nuse == In(nodes, u, 1)
             con == IF is_IfTrue(last.pre, In(last.pre, u, 0)) THEN 1 ELSE 0
         IN /\ nuse \in HoistedCopies
            /\ In(nodes, nuse, 0) = proj_out(nodes, last.invar_iff, con)
            /\ In(nodes, nuse, 1) = In(last.pre, u, 1)
            /\ In(nodes, last.old_new[u], 1) = nuse
    /\ Cardinality(HoistedCopies) = Cardinality(InvariantCasts)
    /\ \A u \in CandidateCasts \ InvariantCasts :
         /\ In(nodes, u, 1) = In(last.pre, u, 1)
         /\ In(nodes, last.old_new[u], 1) = last.old_new[In(last.pre, u, 1)]

\* A cast on the false projection of the candidate was hoisted to the false
\* projection of the selector.
C22_Witness ==
  /\ JustUnswitched
  /\ \E u \in InvariantCasts :
       /\ is_IfFalse(last.pre, In(last.pre, u, 0))
       /\ In(nodes, In(nodes, u, 1), 0) = proj_out(nodes, last.invar_iff, 0)

\* A cast of a loop-variant value on a projection of the candidate was left alone.
C22_WitnessVariant ==
  /\ JustUnswitched
  /\ CandidateCasts \ InvariantCasts # {}


\* The expression below n with the OpaqueLoopInit and OpaqueLoopStride nodes
\* replaced by their inputs: the operation of n and the expressions of its inputs.
RECURSIVE folded_expr(_, _)
folded_expr(g, n) ==
  IF n = 0 THEN <<>>
  ELSE IF is_OpaqueLoopInit(g, n) \/ is_OpaqueLoopStride(g, n) THEN folded_expr(g, In(g, n, 1))
  ELSE IF req(g, n) <= 1 THEN <<g[n].op, n>>
  ELSE <<g[n].op>> \o [i \in 1..(req(g, n) - 1) |-> folded_expr(g, In(g, n, i))]

\* An Initialized Assertion Predicate was just created from last.template and
\* inserted into the chain.
JustInitialized ==
  /\ pc \in {"chain", "initialize"}
  /\ last.initialized >= 1

\* C23: the Initialized Assertion Predicate just created from a template is an
\* If below new_ctrl whose condition is a new OpaqueAssertionPredicate of a new
\* Bool that is the Bool of the template with the OpaqueLoop nodes folded away;
\* the outputs of the If are its success projection, an IfTrue, and an IfFalse
\* whose only output is a new Halt node that is an input of the root;
\* InitializedAssertionPredicate::is_success_proj accepts the success projection
\* and RuntimePredicate::is_success_proj rejects it.
C23_Initialized ==
  JustInitialized =>
    LET p == last.inserted[Len(last.inserted)]
        template_bool == In(nodes, last.template,
                            IF last.initialized = 1 THEN InitValue ELSE LastValue)
        opaque == In(nodes, p.head, 1)
        new_bool == In(nodes, opaque, 1)
        fail_proj == proj_out(nodes, p.head, 0)
    IN /\ is_If(nodes, p.head)
       /\ In(nodes, p.head, 0) = last.new_ctrl
       /\ nodes[opaque].op = "OpaqueAssertionPredicate"
       /\ nodes[new_bool].op = "Bool"
       /\ new_bool # template_bool
       /\ ExprReach(nodes, new_bool) \cap
            {n \in 1..Len(nodes) : is_OpaqueLoopInit(nodes, n) \/ is_OpaqueLoopStride(nodes, n)} = {}
       /\ folded_expr(nodes, new_bool) = folded_expr(nodes, template_bool)
       /\ is_IfTrue(nodes, p.tail)
       /\ is_IfFalse(nodes, fail_proj)
       /\ outs(nodes, p.head) = {p.tail, fail_proj}
       /\ outcnt(nodes, p.head) = 2
       /\ outcnt(nodes, fail_proj) = 1
       /\ nodes[unique_out(nodes, fail_proj)].op = "Halt"
       /\ \E i \in 1..req(nodes, root(nodes)) - 1 :
            In(nodes, root(nodes), i) = unique_out(nodes, fail_proj)
       /\ InitializedAssertionPredicate_is_success_proj(nodes, p.tail)
       /\ ~RuntimePredicate_is_success_proj(nodes, p.tail)

\* The last value predicate of a template was created: the Bool of the template
\* has an OpaqueLoopStride the condition of the new predicate does not have.
C23_Witness ==
  /\ JustInitialized
  /\ last.initialized = 2
  /\ \E n \in ExprReach(nodes, In(nodes, last.template, LastValue)) :
       is_OpaqueLoopStride(nodes, n)
  /\ InitializedAssertionPredicate_is_success_proj(nodes, last.inserted[Len(last.inserted)].tail)


\* The last operation was a do_unswitching.
Unswitched == "did" \in DOMAIN last /\ last.did

\* The last operation constructed a kit.
KitConstructed == "kit" \in DOMAIN last

\* Loop l of graph g has the shape create_reserve() accepts.
ReservableLoop(g, head) ==
  /\ g[head].op = "CountedLoop"
  /\ g[head].valid
  /\ g[head].kind = "main" \/ (g[head].kind = "post" /\ g[head].slp > 0)

\* The nodes a clone of the loop of the kit takes are within the node budget.
KitWithinBudget ==
  may_require_nodes(last.pre, env, est_loop_clone_sz(last.pre, last.kit.lpt, 1))

\* A step of policy_unswitching with find_unswitching_candidate.
PolicyStep == pc = "idle" /\ pc' \in {"decided", "aborted"}

\* C24 (as the code has it): do_unswitching runs only after policy_unswitching
\* found the node budget sufficient for two clones of the loop body, so that
\* every graph an unswitching changed was within the budget before its first
\* mutation; policy_unswitching and find_unswitching_candidate change no node,
\* no edge and no unswitch counter.  create_reserve does not look at the node
\* budget: a kit clones its loop exactly when it is active and the loop is a
\* valid counted main loop or a post loop with slp_max_unroll > 0.
C24_BudgetChecked ==
  /\ [](Unswitched =>
          may_require_nodes(last.pre, env, est_loop_clone_sz(last.pre, last.loop, 2)))
  /\ [][PolicyStep => nodes' = nodes /\ loops' = loops]_vars
  /\ [][nodes' # nodes =>
          \/ pc = "decided" /\ res = "true"
               /\ may_require_nodes(nodes, env, est_loop_clone_sz(nodes, cur, 2))
          \/ pc' = "kit"
          \/ pc = "kit"]_vars
  /\ [](KitConstructed =>
          (KitCloned <=> last.kit.active /\ ReservableLoop(last.pre, head_of(loops, last.kit.lpt))))

\* C24 as stated: a kit clones the loop only when the node budget has room for
\* the clone.
C24_Original == KitConstructed /\ KitCloned => KitWithinBudget

\* A kit cloned its loop although the node budget has no room for the clone.
C24_Witness ==
  /\ KitConstructed
  /\ KitCloned
  /\ ~KitWithinBudget
  /\ Len(nodes) > env.budget

\* An unswitching went ahead with the budget policy_unswitching asked for.
C24_WitnessUnswitched ==
  /\ Unswitched
  /\ pc = "idle"
  /\ Len(nodes) <= env.budget


\* The views were constructed twice.
ViewsTwice == pc = "views" /\ last.first # <<>>

PassDone == pc = "cloned"

\* The nodes of the pass that are clones of the node n of the graph before it.
ClonesOf(n) ==
  {dfs.idx_before_cloning + k - 1 : k \in {j \in 1..Len(dfs.origin) : dfs.origin[j] = n}}

\* The OpaqueLoop* nodes of graph g.
OpaqueLoopNodes(g) ==
  {n \in 1..Len(g) : is_OpaqueLoopInit(g, n) \/ is_OpaqueLoopStride(g, n)}

\* The nodes of the expression of cur, before the pass, on a path to an
\* OpaqueLoop* node, the OpaqueLoop* nodes themselves left out.
OnPathToOpaque ==
  {n \in ExprReach(dfs.orig, cur) \ OpaqueLoopNodes(dfs.orig) :
     ExprReach(dfs.orig, n) \cap OpaqueLoopNodes(dfs.orig) # {}}

\* The number of paths over valid inputs from node m down to node n in g.
RECURSIVE PathCount(_, _, _)
PathCount(g, m, n) ==
  IF m = n THEN 1
  ELSE IF ~is_valid(g, m) \/ is_Opaque1(g, m) THEN 0
  ELSE LET from[i \in 0..(req(g, m) - 1)] ==
             IF i = 0 THEN 0 ELSE from[i - 1] + PathCount(g, In(g, m, i), n)
       IN from[req(g, m) - 1]

\* What the pass makes of the node n of the expression: a clone of n when n is
\* on a path to an OpaqueLoop* node or is one that the strategy clones, the
\* input of n when n is an OpaqueLoop* node that the strategy removes.
IsTransformed(n, new) ==
  IF n \in OpaqueLoopNodes(dfs.orig) /\ dfs.strategy = "RemoveOpaqueLoopNodes"
  THEN new = In(dfs.orig, n, 1)
  ELSE IF n \in OnPathToOpaque \cup (OpaqueLoopNodes(dfs.orig) \cap ExprReach(dfs.orig, cur))
  THEN new \in ClonesOf(n)
  ELSE new = n

\* C26 as stated: every node on a path to an OpaqueLoop* node has one clone.
C26_Original ==
  PassDone => \A n \in OnPathToOpaque : Cardinality(ClonesOf(n)) = 1

\* C26 (as the code has it): a pass clones a node on a path to an OpaqueLoop*
\* node once for every path from the Bool over which it is reached, so once when
\* one path leads to it and more often when it is a shared sub-expression; a
\* node on no such path is not cloned.  Every clone has all the inputs updated
\* that lead to an OpaqueLoop* node, and the other inputs as the original.  A
\* strategy that clones the OpaqueLoop* nodes makes one clone of each
\* OpaqueLoopInit and OpaqueLoopStride of the expression in a pass.
C26_ClonePerPath ==
  PassDone =>
    /\ \A n \in OnPathToOpaque : Cardinality(ClonesOf(n)) = PathCount(dfs.orig, cur, n)
    /\ \A n \in 1..Len(dfs.orig) :
         n \notin OnPathToOpaque \cup OpaqueLoopNodes(dfs.orig) => ClonesOf(n) = {}
    /\ \A n \in OnPathToOpaque : \A c \in ClonesOf(n) :
         \A i \in 0..(req(dfs.orig, n) - 1) :
           IF i = 0 \/ ~is_valid(dfs.orig, In(dfs.orig, n, i))
           THEN In(nodes, c, i) = In(dfs.orig, n, i)
           ELSE IsTransformed(In(dfs.orig, n, i), In(nodes, c, i))
    /\ \A n \in OpaqueLoopNodes(dfs.orig) :
         Cardinality(ClonesOf(n)) =
           IF dfs.strategy # "RemoveOpaqueLoopNodes" /\ n \in ExprReach(dfs.orig, cur)
           THEN 1 ELSE 0

\* A pass has cloned a shared sub-expression twice.
C26_Witness ==
  /\ PassDone
  /\ \E n \in OnPathToOpaque : Cardinality(ClonesOf(n)) = 2

\* A pass with the clone-only strategy has reached the OpaqueLoopInit over two
\* paths and cloned it once, into a node with two updated inputs.
C26_WitnessCached ==
  /\ PassDone
  /\ dfs.strategy = "CloneOpaqueLoopNodes"
  /\ PathCount(dfs.orig, cur, OpaqueInitIdx) >= 2
  /\ Cardinality(ClonesOf(OpaqueInitIdx)) = 1
  /\ \E c \in (Len(dfs.orig) + 1)..Len(nodes) :
       In(nodes, c, 1) \in ClonesOf(OpaqueInitIdx) /\ In(nodes, c, 2) \in ClonesOf(OpaqueStrideIdx)


\* A pass over the template bool cur is running or has returned.
InPass == pc \in {"dfs", "cloned"}

\* C27: during and after a pass of any of the three strategies every node that
\* existed before the pass (index below the index captured by the constructor)
\* has the inputs it had before the pass, so the source Bool and its expression
\* are as before; a step of the pass changes inputs of nodes created by the
\* pass only.
C27_Frame ==
  /\ [](InPass =>
          /\ dfs.idx_before_cloning = Len(dfs.orig) + 1
          /\ Len(nodes) >= Len(dfs.orig)
          /\ \A n \in 1..Len(dfs.orig) : nodes[n] = dfs.orig[n]
          /\ ExprReach(nodes, cur) = ExprReach(dfs.orig, cur))
  /\ [][pc = "dfs" =>
          \A n \in 1..Len(nodes) :
            nodes'[n].in # nodes[n].in => n >= dfs.idx_before_cloning]_vars

\* A pass that gave the new OpaqueLoopInit a new input and rewired a clone made
\* before to a second clone of a shared sub-expression has returned.
C27_Witness ==
  /\ pc = "cloned"
  /\ dfs.strategy = "CloneWithNewOpaqueInitInput"
  /\ In(nodes, dfs.cached_init, 1) = NewOpaqueInitInput
  /\ In(nodes, OpaqueInitIdx, 1) = ParmIdx
  /\ \E n \in 1..Len(dfs.orig) : Cardinality(ClonesOf(n)) = 2


\* C28: every pass reaches its end and stays there: the loop of
\* CloneAssertionPredicateBool::clone ends, with the stack
\* empty, and clone then returns a Bool created by the pass (its index is at
\* least the index captured by the constructor), which is not the source Bool;
\* the loop of OpaqueLoopStrideNodes::findAndVisit ends with the stack empty, and
\* every OpaqueLoopStride of the expression has been visited.
C28_Terminates ==
  /\ <>[](pc \in {"cloned", "visited"})
  /\ [](pc = "cloned" =>
          /\ dfs.stack = <<>>
          /\ OpaqueInitIdx \in ExprReach(dfs.orig, cur)
          /\ is_Bool(nodes, dfs.result)
          /\ dfs.result >= dfs.idx_before_cloning
          /\ dfs.result # cur)
  /\ [](pc = "visited" =>
          /\ dfs.stack = <<>>
          /\ \A n \in ExprReach(nodes, cur) :
               is_OpaqueLoopStride(nodes, n) => In(nodes, n, 1) = dfs.new_input)

\* clone returned the new Bool of an expression with a shared sub-expression.
C28_Witness ==
  /\ pc = "cloned"
  /\ dfs.stack = <<>>
  /\ dfs.result > Len(dfs.orig)
  /\ \E n \in OnPathToOpaque : PathCount(dfs.orig, cur, n) >= 2

\* findAndVisit ended after it visited an OpaqueLoopStride node.
C28_WitnessVisited ==
  /\ pc = "visited"
  /\ dfs.stack = <<>>
  /\ In(nodes, OpaqueStrideIdx, 1) = dfs.new_input
  /\ OpaqueStrideIdx \in ExprReach(nodes, cur)


\* The expression below n as a tree: the operation of n with the trees of its
\* inputs; an OpaqueLoop* node is a leaf without regard to its input.
RECURSIVE expr_shape(_, _)
expr_shape(g, n) ==
  IF n = 0 THEN <<>>
  ELSE IF is_OpaqueLoopInit(g, n) \/ is_OpaqueLoopStride(g, n) THEN <<g[n].op>>
  ELSE IF req(g, n) <= 1 \/ ~is_valid(g, n) THEN <<g[n].op, n>>
  ELSE <<g[n].op>> \o [i \in 1..(req(g, n) - 1) |-> expr_shape(g, In(g, n, i))]

\* clone_update_opaque_init has returned.
InitUpdated == pc = "cloned" /\ dfs.strategy = "CloneWithNewOpaqueInitInput"

\* C29: the Bool clone_update_opaque_init returns has the expression of the
\* source Bool over OpaqueLoop* leaves; its only OpaqueLoopInit is a node
\* created by the pass with new_opaque_init_input as input 1; its
\* OpaqueLoopStride nodes are created by the pass and equal to the originals
\* they are clones of; the OpaqueLoopInit of the source Bool has its old input.
C29_UpdatedInit ==
  InitUpdated =>
    LET reach == ExprReach(nodes, dfs.result)
        inits == {n \in reach : is_OpaqueLoopInit(nodes, n)}
        strides == {n \in reach : is_OpaqueLoopStride(nodes, n)}
    IN /\ is_Bool(nodes, dfs.result)
       /\ expr_shape(nodes, dfs.result) = expr_shape(dfs.orig, cur)
       /\ inits = {dfs.cached_init}
       /\ dfs.cached_init >= dfs.idx_before_cloning
       /\ dfs.cached_init \in ClonesOf(OpaqueInitIdx)
       /\ In(nodes, dfs.cached_init, 1) = dfs.new_input
       /\ dfs.new_input = NewOpaqueInitInput
       /\ \A s \in strides :
            /\ s >= dfs.idx_before_cloning
            /\ s \in ClonesOf(OpaqueStrideIdx)
            /\ nodes[s] = dfs.orig[OpaqueStrideIdx]
       /\ (strides # {}) = (OpaqueStrideIdx \in ExprReach(dfs.orig, cur))
       /\ nodes[OpaqueInitIdx] = dfs.orig[OpaqueInitIdx]
       /\ In(nodes, OpaqueInitIdx, 1) # dfs.new_input

\* clone_update_opaque_init returned the clone of a Bool with an OpaqueLoopInit
\* and an OpaqueLoopStride.
C29_Witness ==
  /\ InitUpdated
  /\ dfs.cached_stride # 0
  /\ In(nodes, dfs.cached_init, 1) = NewOpaqueInitInput
  /\ In(nodes, dfs.cached_stride, 1) = Con1Idx
  /\ In(nodes, OpaqueInitIdx, 1) = ParmIdx

-----------------------------------------------------------------------------
(* AssertionPredicates::update (predicates.cpp): the walk of the predicates *)
(* of a counted loop with the UpdateAndInitAssertionPredicates visitor      *)

MaxUpdates == 2       \* calls of AssertionPredicates::update for the loop

\* The blocks in the order PredicatesForLoop::for_each walks them.
BlockReasons == <<"loop_limit_check", "profile_predicate", "predicate">>

\* The counted loop of the model: a Runtime Predicate of the Loop Predicate
\* block (if rt), the Parse Predicates of the given reasons, nt Template
\* Assertion Predicates, the loop head, and the root.  The result is [g, head].
UpdGraph(reasons, rt, nt) ==
  LET g0 == UnswBase \o << NewNode("CmpU", <<0, ParmIdx, RangeIdx>>, 0, 0),
                           NewNode("Bool", <<0, Len(UnswBase) + 1>>, 0, 0) >>
      r0 == IF rt
            THEN LET r == AddPred(g0, [kind |-> "Runtime", op |-> "If",
                                       reason |-> "predicate"], EntryIdx)
                 IN <<set_req(r[1], Len(g0) + 1, 1, Len(g0)), r[2]>>
            ELSE <<g0, EntryIdx>>
      r1 == AddPreds(r0[1], ParseChain(reasons), r0[2])
      r2 == AddTemplates(r1[1], nt, r1[2])
      head == Len(r2[1]) + 1
  IN [g |-> r2[1] \o << NewNode("CountedLoop", <<0, r2[2], head>>, 1, r2[2]),
                        NewNode("Root", <<0>>, 0, 0) >>,
      head |-> head]

\* The visitor and the iterators before the first call of update.
NoUpdate ==
  [head |-> 0, new_stride |-> 0, index_before_visit |-> 0, chain_tail |-> 0,
   block |-> 0, entry |-> 0, updates |-> 0, pre |-> <<>>, visited |-> <<>>]

\* ParseNode::is_useless of a node that may never have been marked.
is_useless(g, n) == "useless" \in DOMAIN g[n] /\ g[n].useless

\* InitializedAssertionPredicate(IfTrueNode*) with head() and tail().
InitializedAssertionPredicate(g, success_proj) ==
  [head |-> In(g, success_proj, 0), tail |-> success_proj]

\* InitializedAssertionPredicate::kill: the If of the predicate is marked
\* useless, to be swept later.
InitializedAssertionPredicate_kill(g, initialized_assertion_predicate) ==
  kill(g, initialized_assertion_predicate.head)

\* TemplateAssertionPredicate::initialize: an Initialized Assertion Predicate
\* for the init value, then one for the last value, below the control input of
\* the template; each is inserted into the chain as a new predicate.  The
\* result is [g, tail, predicate, pre] of the second one.
initialize(g, template, chain_tail) ==
  LET new_ctrl == In(g, template, 0)
      last_value(r) ==
        create_initialized_predicate(r.g, new_ctrl, In(g, template, LastValue), r.tail)
  IN last_value(create_initialized_predicate(g, new_ctrl, In(g, template, InitValue),
                                             chain_tail))

\* UpdateAndInitAssertionPredicates::visit(InitializedAssertionPredicate&) that
\* kills every Initialized Assertion Predicate it is given.
visit_initialized_M30(g, index_before_visit, initialized_assertion_predicate) ==
  InitializedAssertionPredicate_kill(g, initialized_assertion_predicate)

\* UpdateAndInitAssertionPredicates::visit(InitializedAssertionPredicate&).
visit_initialized(g, index_before_visit, initialized_assertion_predicate) ==
  IF initialized_assertion_predicate.head < index_before_visit
  THEN InitializedAssertionPredicate_kill(g, initialized_assertion_predicate)
  ELSE g

\* UpdateAndInitAssertionPredicates::visit(TemplateAssertionPredicate&):
\* [g, tail, predicate, pre].
visit_template(g, new_stride, chain_tail, template) ==
  LET init(r) == initialize(r.g, template, r.tail)
      insert(g1) == init(insert_existing_predicate(g1, chain_tail,
                                                   TemplatePredicate(template)))
  IN insert(update_opaque_stride(g, In(g, template, LastValue), new_stride))

\* PredicatesForLoop::for_each: the block walked after the given one, 0 after
\* the last one.
next_block(flags, block) ==
  IF ~flags.UseLoopPredicate \/ block = 3 THEN 0
  ELSE IF block = 1 /\ flags.UseProfiledLoopPredicate THEN 2
  ELSE 3

InitUpdate ==
  /\ \E reasons \in SUBSET {"predicate", "profile_predicate", "loop_limit_check"},
        rt \in BOOLEAN, nt \in 0..MaxTemplates :
       \E u \in {UpdGraph(reasons, rt, nt)} :
          /\ nodes = u.g
          /\ loops = <<[head |-> u.head]>>
          /\ last = [NoUpdate EXCEPT !.head = u.head]
  /\ \E ulp \in BOOLEAN, uplp \in BOOLEAN :
       /\ ulp \/ uplp
       /\ env = [UseLoopPredicate |-> ulp, UseProfiledLoopPredicate |-> uplp]
  /\ pc = "idle"
  /\ cur = 0
  /\ res = "none"
  /\ seen = 0
  /\ dfs = NoDfs

\* AssertionPredicates::update up to predicates_for_loop.for_each(): the new
\* stride is a constant of the graph, the visitor captures the index of the
\* next node, and its chain starts at the loop head.
AssertionPredicatesUpdate ==
  /\ pc \in {"idle", "updated"}
  /\ last.updates < MaxUpdates
  /\ \E new_stride \in {Con0Idx, Con1Idx} :
       last' = [last EXCEPT
                  !.new_stride = new_stride,
                  !.index_before_visit = unique(nodes),
                  !.chain_tail = last.head,
                  !.block = 1,
                  !.entry = In(nodes, skip_strip_mined(nodes, last.head), EntryControl),
                  !.updates = @ + 1,
                  !.pre = nodes,
                  !.visited = <<>>]
  /\ pc' = "block"
  /\ UNCHANGED <<nodes, loops, env, cur, res, seen, dfs>>

\* PredicateInBlockIterator::for_each up to the RegularPredicateInBlockIterator:
\* a Parse Predicate of the block is visited, one of another block ends the
\* walk of the block.
ForEachInBlock ==
  /\ pc = "block"
  /\ LET entry == last.entry
         deopt_reason == BlockReasons[last.block]
     IN IF is_parse_predicate_success_proj(nodes, entry)
        THEN IF init_parse_predicate(nodes, entry, deopt_reason) # 0
             THEN /\ last' = [last EXCEPT
                                !.entry = ParsePredicate(nodes, entry).entry,
                                !.visited = Append(@, [kind |-> "Parse", node |-> entry,
                                                       killed |-> FALSE])]
                  /\ pc' = "regular"
             ELSE /\ last' = [last EXCEPT !.block = next_block(env, last.block)]
                  /\ pc' = IF next_block(env, last.block) = 0 THEN "updated" ELSE "block"
        ELSE /\ pc' = "regular"
             /\ UNCHANGED last
  /\ UNCHANGED <<nodes, loops, env, cur, res, seen, dfs>>

\* RegularPredicateInBlockIterator::for_each at a Template Assertion Predicate:
\* the visitor updates and initializes it, and the walk goes on at the entry the
\* template has after the visit.
VisitTemplate ==
  /\ pc = "regular"
  /\ is_TemplateAssertionPredicate(nodes, last.entry)
  /\ \E r \in {visit_template(nodes, last.new_stride, last.chain_tail, last.entry)} :
       /\ nodes' = r.g
       /\ last' = [last EXCEPT
                     !.chain_tail = r.tail,
                     !.entry = In(r.g, last.entry, 0),
                     !.visited = Append(@, [kind |-> "Template", node |-> last.entry,
                                            killed |-> FALSE])]
  /\ UNCHANGED <<pc, loops, env, cur, res, seen, dfs>>

\* RegularPredicateInBlockIterator::for_each at a Runtime Predicate of the
\* block: the visitor does nothing.
VisitRuntimePredicate ==
  /\ pc = "regular"
  /\ ~is_TemplateAssertionPredicate(nodes, last.entry)
  /\ RuntimePredicate_is_success_proj_for(nodes, last.entry, BlockReasons[last.block])
  /\ last' = [last EXCEPT
                !.entry = In(nodes, In(nodes, last.entry, 0), 0),
                !.visited = Append(@, [kind |-> "Runtime", node |-> last.entry,
                                       killed |-> FALSE])]
  /\ UNCHANGED <<nodes, pc, loops, env, cur, res, seen, dfs>>

\* RegularPredicateInBlockIterator::for_each at an Initialized Assertion
\* Predicate: the visitor kills it if it is older than the visitor.
VisitInitialized ==
  /\ pc = "regular"
  /\ ~is_TemplateAssertionPredicate(nodes, last.entry)
  /\ ~RuntimePredicate_is_success_proj_for(nodes, last.entry, BlockReasons[last.block])
  /\ InitializedAssertionPredicate_is_success_proj(nodes, last.entry)
  /\ \E p \in {InitializedAssertionPredicate(nodes, last.entry)} :
       /\ nodes' = visit_initialized(nodes, last.index_before_visit, p)
       /\ last' = [last EXCEPT
                     !.entry = In(nodes, p.head, 0),
                     !.visited = Append(@, [kind |-> "Initialized", node |-> p.head,
                                            killed |-> nodes' # nodes])]
  /\ UNCHANGED <<pc, loops, env, cur, res, seen, dfs>>

\* RegularPredicateInBlockIterator::for_each at any other node: the walk of the
\* block ends, and PredicatesForLoop::for_each goes on with the next block.
ReturnEntry ==
  /\ pc = "regular"
  /\ ~is_TemplateAssertionPredicate(nodes, last.entry)
  /\ ~RuntimePredicate_is_success_proj_for(nodes, last.entry, BlockReasons[last.block])
  /\ ~InitializedAssertionPredicate_is_success_proj(nodes, last.entry)
  /\ last' = [last EXCEPT !.block = next_block(env, last.block)]
  /\ pc' = IF next_block(env, last.block) = 0 THEN "updated" ELSE "block"
  /\ UNCHANGED <<nodes, loops, env, cur, res, seen, dfs>>

NextUpdate ==
  \/ AssertionPredicatesUpdate
  \/ ForEachInBlock
  \/ VisitTemplate
  \/ VisitRuntimePredicate
  \/ VisitInitialized
  \/ ReturnEntry

SpecUpdate == InitUpdate /\ [][NextUpdate]_vars

-----------------------------------------------------------------------------
(* Properties of AssertionPredicates::update *)

\* A call of AssertionPredicates::update has returned.
Updated == pc = "updated"

\* The walk of a call of AssertionPredicates::update is under way.
Walking == pc \in {"block", "regular"}

TemplatesOf(g) == {n \in 1..Len(g) : is_TemplateAssertionPredicate(g, n)}

\* The Ifs of the Initialized Assertion Predicates of the graph.
InitializedHeads(g) ==
  {n \in 1..Len(g) :
     g[n].op = "If" /\ InitializedAssertionPredicate_is_success_proj(g, proj_out(g, n, 1))}

UselessNodes(g) == {n \in 1..Len(g) : is_useless(g, n)}

\* The success projection p of an Initialized Assertion Predicate created by the
\* call under way or just returned.
FreshInitialized(p) ==
  /\ p >= last.index_before_visit
  /\ In(nodes, p, 0) >= last.index_before_visit
  /\ InitializedAssertionPredicate_is_success_proj(nodes, p)
  /\ ~is_useless(nodes, In(nodes, p, 0))

\* The OpaqueLoopStride nodes of the last value of template t have the input s.
StrideOf(t, s) ==
  \A n \in ExprReach(nodes, In(nodes, t, LastValue)) :
     is_OpaqueLoopStride(nodes, n) => In(nodes, n, 1) = s

\* What is left of the walk: the control nodes from n up to the start, a
\* Template Assertion Predicate counting for the predicates its visit inserts
\* below its entry (two Ifs with their success projections) and itself.
RECURSIVE left_above(_, _)
left_above(g, n) ==
  IF n = 0 THEN 0
  ELSE (IF is_TemplateAssertionPredicate(g, n) THEN 5 ELSE 1) + left_above(g, In(g, n, 0))

\* The blocks PredicatesForLoop::for_each has not finished, the current one
\* counting twice before its RegularPredicateInBlockIterator has started.
blocks_left(block, at) == 2 * (Len(BlockReasons) + 1 - block) + (IF at = "block" THEN 1 ELSE 0)

\* C30: when AssertionPredicates::update(new_stride) has returned, every
\* Template Assertion Predicate above the loop has the new stride, has a fresh
\* Initialized Assertion Predicate for the init value and one for the last value
\* between itself and the control input it had before, and the Initialized
\* Assertion Predicates that are marked useless are exactly those that existed
\* before the call: none that the call created is killed, at any time of the
\* walk.  The walk returns although it visits the predicates it inserts: every
\* step of it either ends a block or moves up the chain, so that what is left
\* of the walk gets smaller with every step.
C30_Update ==
  /\ [](Updated =>
          /\ TemplatesOf(nodes) = TemplatesOf(last.pre)
          /\ \A t \in TemplatesOf(nodes) :
               LET iv == In(nodes, t, 0)
                   lv == In(nodes, In(nodes, iv, 0), 0)
               IN /\ StrideOf(t, last.new_stride)
                  /\ FreshInitialized(iv)
                  /\ FreshInitialized(lv)
                  /\ In(nodes, In(nodes, lv, 0), 0) = In(last.pre, t, 0)
          /\ Cardinality(InitializedHeads(nodes) \ InitializedHeads(last.pre))
               = 2 * Cardinality(TemplatesOf(nodes))
          /\ UselessNodes(nodes) = InitializedHeads(last.pre))
  /\ []((Walking \/ Updated) =>
          \A n \in UselessNodes(nodes) : n < last.index_before_visit)
  /\ [][(Walking /\ Walking') =>
          \/ blocks_left(last'.block, pc') < blocks_left(last.block, pc)
          \/ /\ blocks_left(last'.block, pc') = blocks_left(last.block, pc)
             /\ left_above(nodes', last'.entry) < left_above(nodes, last.entry)]_vars
  /\ [][Walking => (Walking' \/ Updated')]_vars

\* The second call has returned: it visited an Initialized Assertion Predicate
\* it had created itself and left it alone, and killed one of the first call.
C30_Witness ==
  /\ Updated
  /\ last.updates = 2
  /\ \E i, j \in 1..Len(last.visited) :
       /\ i < j
       /\ last.visited[i].kind = "Initialized"
       /\ ~last.visited[i].killed
       /\ last.visited[i].node >= last.index_before_visit
       /\ last.visited[j].kind = "Initialized"
       /\ last.visited[j].killed
       /\ last.visited[j].node < last.index_before_visit

\* The walk visited a Parse Predicate and a Runtime Predicate above the
\* Template Assertion Predicates it updated.
C30_WitnessBlocks ==
  /\ Updated
  /\ \E i, j, k \in 1..Len(last.visited) :
       /\ last.visited[i].kind = "Template"
       /\ last.visited[j].kind = "Parse"
       /\ last.visited[k].kind = "Runtime"

-----------------------------------------------------------------------------
(* Properties of the predicates above the target loop of clone_to_loop *)

\* AssertionPredicates::clone_to_loop has returned.
ClonedToLoop ==
  pc = "chain" /\ last.mode = "clone" /\ last.todo = <<>> /\ last.inserted # <<>>

\* The predicates met on the way up from the control node n to 'stop'.
RECURSIVE chain_above(_, _, _)
chain_above(g, n, stop) ==
  IF n = 0 \/ n = stop THEN <<>>
  ELSE IF is_TemplateAssertionPredicate(g, n)
  THEN <<[kind |-> "Template", node |-> n]>> \o chain_above(g, In(g, n, 0), stop)
  ELSE IF InitializedAssertionPredicate_is_success_proj(g, n)
  THEN <<[kind |-> "Initialized", node |-> In(g, n, 0)]>>
         \o chain_above(g, In(g, In(g, n, 0), 0), stop)
  ELSE <<[kind |-> "Other", node |-> n]>>

\* The new predicates above the target loop head, from the head up to the entry
\* the target loop had before the call.
NewAboveTarget == chain_above(nodes, In(nodes, last.target, EntryControl), last.new_ctrl)

\* The Template Assertion Predicates met on the way up from the head of the
\* source loop.
SourceTemplates ==
  LET c == SelectSeq(chain_above(nodes, In(nodes, last.fast_loop_head, EntryControl), 0),
                     LAMBDA p : p.kind = "Template")
  IN [i \in 1..Len(c) |-> c[i].node]

\* The new template that was created for the template t of the source loop.
NewTemplateOf(t) ==
  {last.inserted[i].head : i \in {j \in 1..Len(last.inserted) :
     /\ last.inserted[j].source = t
     /\ is_TemplateAssertionPredicate(nodes, last.inserted[j].head)}}

-----------------------------------------------------------------------------
(* Properties of the loops create_slow_version_of_loop returns *)

\* create_slow_version_of_loop has returned.
SlowVersionCreated == pc = "unswitched"

\* Node::unique_ctrl_out: the only control output of n, 0 if there is none or
\* more than one.
unique_ctrl_out(g, n) ==
  LET cs == {m \in outs(g, n) : is_CFG(g, m)}
  IN IF Cardinality(cs) = 1 THEN CHOOSE m \in cs : TRUE ELSE 0

\* The Predicates of the loop with the given head.
PredicatesOf(head) ==
  Predicates(nodes, In(nodes, skip_strip_mined(nodes, head), EntryControl))

C32_WitnessNoPredicates ==
  /\ SlowVersionCreated
  /\ ~last.can_clone
  /\ last.templates = <<>>
  /\ unique_ctrl_out(nodes, proj_out(nodes, last.unswitch_if_node, 1)) = last.fast_loop_head

-----------------------------------------------------------------------------
(* Properties of the Template Assertion Predicates of the unswitched loops *)

\* Only Parse Predicates lie on the way up from n to stop.
RECURSIVE parse_only(_, _, _)
parse_only(g, n, stop) ==
  \/ n = stop
  \/ /\ n # 0
     /\ is_parse_predicate_success_proj(g, n)
     /\ parse_only(g, In(g, In(g, n, 0), 0), stop)

\* The templates met on the way up from the head of a loop, and the node the
\* topmost of them is entered from.
TemplatesAt(head) ==
  LET c == chain_above(nodes, In(nodes, head, EntryControl), 0)
      ts == SelectSeq(c, LAMBDA p : p.kind = "Template")
  IN [nodes |-> [i \in 1..Len(ts) |-> ts[i].node],
      entry |-> IF ts = <<>> THEN In(nodes, head, EntryControl)
                ELSE In(nodes, ts[Len(ts)].node, 0)]

\* C33: the templates of the loop being unswitched are kept, with their inputs
\* but the control input of the first one, and are the templates of the fast
\* loop, entered from the Parse Predicates below the true projection of the
\* unswitch If; the unswitch If is entered from the old entry of the templates;
\* the slow loop has as many templates, all of them created after the loop was
\* cloned, entered from the Parse Predicates below the false projection.  A loop
\* without templates gets none for either loop.
C33_Templates ==
  SlowVersionCreated =>
    LET fast == last.fast_loop_head
        slow == last.old_new[fast]
        old == TemplatesOf(last.start)
        f == TemplatesAt(fast)
        s == TemplatesAt(slow)
        first_template == f.nodes[Len(f.nodes)]
    IN IF old = {}
       THEN TemplatesOf(nodes) = {}
       ELSE /\ {f.nodes[i] : i \in 1..Len(f.nodes)} = old
            /\ \A t \in old :
                 /\ In(nodes, t, InitValue) = In(last.start, t, InitValue)
                 /\ In(nodes, t, LastValue) = In(last.start, t, LastValue)
                 /\ t # first_template => In(nodes, t, 0) = In(last.start, t, 0)
            /\ parse_only(nodes, f.entry, proj_out(nodes, last.unswitch_if_node, 1))
            /\ In(nodes, last.unswitch_if_node, 0) = In(last.start, first_template, 0)
            /\ Len(s.nodes) = Len(f.nodes)
            /\ {s.nodes[i] : i \in 1..Len(s.nodes)} = TemplatesOf(nodes) \ old
            /\ \A i \in 1..Len(s.nodes) : s.nodes[i] >= last.first_slow_loop_node_index
            /\ parse_only(nodes, s.entry, proj_out(nodes, last.unswitch_if_node, 0))
            /\ last.can_clone =>
                 /\ s.entry # proj_out(nodes, last.unswitch_if_node, 0)
                 /\ s.entry >= last.first_slow_loop_node_index

\* A loop with two templates below its Parse Predicates was unswitched.
C33_Witness ==
  /\ SlowVersionCreated
  /\ Cardinality(TemplatesOf(last.start)) = 2
  /\ last.can_clone
  /\ Len(TemplatesAt(last.old_new[last.fast_loop_head]).nodes) = 2

\* A loop without templates was unswitched.
C33_WitnessNone ==
  /\ SlowVersionCreated
  /\ TemplatesOf(last.start) = {}
  /\ TemplatesOf(nodes) = {}

-----------------------------------------------------------------------------
(* Properties of the unswitch If *)

C34_WitnessIf ==
  /\ Unswitched
  /\ last.pre[last.cand].op = "If"
  /\ \E n \in 1..Len(last.pre) :
       n < last.cand /\ last.pre[n].op \in {"If", "RangeCheck"} /\ last.pre[n].prob # 0


\* ---------------------------------------------------------------------------
\* Folded predicates in a predicate walk.

\* The projections of an If (no zero-trip guard) or RangeCheck whose condition
\* is a constant and which has one projection left.
FoldedProjections(g) ==
  {p \in 1..Len(g) :
     /\ g[p].op \in {"IfTrue", "IfFalse"}
     /\ g[p].in[1] # 0
     /\ LET iff == g[p].in[1]
        IN /\ \/ g[iff].op = "If" /\ ~g[iff].ztg
              \/ g[iff].op = "RangeCheck"
           /\ g[g[iff].in[2]].op = "ConI"
           /\ \A q \in 1..Len(g) : Len(g[q].in) > 0 /\ g[q].in[1] = iff => q = p}

\* C35: a projection of an If (no zero-trip guard) or RangeCheck with a
\* constant condition and one projection left never stops a predicate walk:
\* RuntimePredicate::is_success_proj accepts it for every deopt reason,
\* PredicateEntryIterator::has_next is true on it, and
\* RegularPredicateInBlockIterator::for_each and
\* RuntimePredicateBlock::find_entry go on with the node above its If and end
\* where a walk started there ends.
C35_FoldedNeverStops ==
  pc = "walked" =>
    \A p \in FoldedProjections(nodes) :
      LET iff == nodes[p].in[1]
          up == nodes[iff].in[1]
      IN /\ p \in DOMAIN last.has_next
         /\ last.is_success_proj[p] = PredicateReasons
         /\ last.has_next[p]
         /\ \A r \in PredicateReasons :
              /\ last.find_entry[p][r] # p
              /\ last.find_entry[p][r] = find_entry(nodes, up, r)
              /\ last.for_each[p][r].entry # p
              /\ \E above \in {RegularPredicateInBlockIterator_for_each(nodes, up, r)} :
                   /\ last.for_each[p][r].entry = above.entry
                   /\ last.for_each[p][r].visited =
                        {[kind |-> "Runtime", head |-> iff]} \cup above.visited

\* The walks were started at the one projection left of a RangeCheck with a
\* constant condition, below a Runtime Predicate that still has its uncommon
\* trap: both walks passed the two.
C35_Witness ==
  /\ pc = "walked"
  /\ \E p \in FoldedProjections(nodes), r \in PredicateReasons :
       LET iff == nodes[p].in[1]
           up == nodes[iff].in[1]
       IN /\ nodes[iff].op = "RangeCheck"
          /\ up \in LiveControl(nodes) /\ up \notin FoldedProjections(nodes)
          /\ nodes[up].op \in {"IfTrue", "IfFalse"}
          /\ last.find_entry[p][r] \notin {p, up}
          /\ Cardinality(last.for_each[p][r].visited) = 2

\* The walks were started at the IfFalse projection left of an If whose
\* condition folded to 0, below a Template Assertion Predicate: for_each
\* passed both, find_entry stopped at the template.
C35_WitnessFalseProjection ==
  /\ pc = "walked"
  /\ \E p \in FoldedProjections(nodes), r \in PredicateReasons :
       LET iff == nodes[p].in[1]
           up == nodes[iff].in[1]
       IN /\ nodes[p].op = "IfFalse"
          /\ nodes[up].op = "TemplateAssertionPredicate"
          /\ last.find_entry[p][r] = up
          /\ last.for_each[p][r].entry \notin {p, up}
          /\ last.has_next[p]


\* ---------------------------------------------------------------------------
\* A kit that does not reserve.

\* The kit of the last operation is inactive, or its loop is not a counted
\* loop, not a valid counted loop, or neither a main loop nor a post loop with
\* slp_max_unroll > 0.
KitRejected ==
  /\ KitConstructed
  /\ LET h == last.pre[head_of(loops, last.kit.lpt)]
     IN \/ ~last.kit.active
        \/ h.op # "CountedLoop"
        \/ ~h.valid
        \/ h.kind # "main" /\ ~(h.kind = "post" /\ h.slp > 0)

\* C36: a CountedLoopReserveKit that is inactive, or whose loop is not a
\* counted loop, not a valid int counted loop, or neither a main loop nor a
\* post loop with slp_max_unroll > 0, leaves the graph unchanged: the
\* constructor creates no node and changes no edge and no loop, has_reserved
\* stays false (nothing is reserved, no selector If is set), and the
\* destructor changes nothing, whether or not use_new() was called.
C36_RejectedKitChangesNothing ==
  /\ [](KitRejected =>
          /\ nodes = last.pre
          /\ ~last.kit.has_reserved
          /\ last.kit.lp_reserved = 0 /\ last.kit.iff = 0 /\ last.kit.lp = 0)
  /\ [][KitRejected' /\ pc' \in {"kit", "destroyed"} =>
          nodes' = nodes /\ loops' = loops]_vars

\* The kit of a valid counted post loop with slp_max_unroll = 0 was constructed
\* active and destroyed, without use_new().
C36_Witness ==
  /\ pc = "destroyed"
  /\ KitRejected
  /\ last.destroyed
  /\ last.kit.active /\ ~last.kit.use_new
  /\ LET h == last.pre[head_of(loops, last.kit.lpt)]
     IN h.op = "CountedLoop" /\ h.valid /\ h.kind = "post" /\ h.slp = 0

\* An inactive kit of a valid counted main loop was destroyed.
C36_WitnessInactive ==
  /\ pc = "destroyed"
  /\ KitRejected
  /\ ~last.kit.active
  /\ ReservableLoop(last.pre, head_of(loops, last.kit.lpt))


\* ---------------------------------------------------------------------------
\* update_opaque_stride on template bools whose OpaqueLoopInit node has an
\* init value that is a Parm or is computed by an AddI.

\* What computes the init value a template bool's OpaqueLoopInit node wraps.
InitValues == {"Parm", "AddI"}

\* Template bool g with the init value computed as told: the AddI is the node
\* after the Bool.
WithInitValue(g, init) ==
  IF init = "Parm" THEN g
  ELSE set_req(Append(g, NewNode("AddI", <<0, ParmIdx, Con1Idx>>, 0, 0)),
               OpaqueInitIdx, 1, Len(g) + 1)

InitStride ==
  /\ \E g \in TemplateBools(MaxExpr), init \in InitValues :
       /\ nodes = WithInitValue(g, init)
       /\ cur = Len(g)
  /\ loops = <<>>
  /\ env = [LoopUnswitching |-> TRUE, debug |-> FALSE, budget |-> 4 * Len(nodes)]
  /\ pc = "template"
  /\ res = "none"
  /\ seen = 0
  /\ last = NoInfo
  /\ dfs = NoDfs

NextStride ==
  \/ NewOpaqueLoopStrideNodes
  \/ FindVisitStride
  \/ FindPushInput
  \/ FindPopVisitedNode
  \/ FindReturn

SpecStride == InitStride /\ [][NextStride]_vars

\* update_opaque_stride is running or has returned.
InFind == pc \in {"find", "visited"}

\* The OpaqueLoopStride nodes of the expression of the template bool cur.
OwnStrides == {n \in ExprReach(dfs.orig, cur) : dfs.orig[n].op = "OpaqueLoopStride"}

\* The nodes of the stack that were pushed as an input of an OpaqueLoop* node
\* of the opcodes ops.
PushedBelow(ops) ==
  {dfs.stack[i].node : i \in {j \in 2..Len(dfs.stack) : nodes[dfs.stack[j - 1].node].op \in ops}}

\* No node was created, and only input 1 of OpaqueLoopStride nodes of the
\* expression differs from what it was: it is the new stride.
OnlyStrideInputChanged ==
  /\ Len(nodes) = Len(dfs.orig)
  /\ \A n \in 1..Len(nodes) :
       \/ nodes[n] = dfs.orig[n]
       \/ /\ n \in OwnStrides
          /\ nodes[n] = [dfs.orig[n] EXCEPT !.in[2] = dfs.new_input]

\* C37 (as stated): update_opaque_stride changes only input 1 of the
\* OpaqueLoopStride nodes of the expression, creates no node, and its
\* traversal pushes no input of an OpaqueLoopInit or OpaqueLoopStride node.
C37_Original ==
  InFind =>
    /\ OnlyStrideInputChanged
    /\ PushedBelow({"OpaqueLoopInit", "OpaqueLoopStride"}) = {}

\* C37 (as the code has it): update_opaque_stride changes only input 1 of the
\* OpaqueLoopStride nodes of the template Bool's expression, setting it to the
\* new stride (all of them once it has returned); it creates no node and
\* changes no other node.  Its traversal stops at an OpaqueLoopStride node,
\* but an OpaqueLoopInit node is no leaf for it: the traversal descends into
\* the init value when that is computed by a node of a valid opcode, where it
\* changes nothing.
C37_StrideFrame ==
  /\ [](InFind =>
          /\ OnlyStrideInputChanged
          /\ PushedBelow({"OpaqueLoopStride"}) = {}
          /\ \A n \in PushedBelow({"OpaqueLoopInit"}) :
               is_valid(nodes, n) /\ nodes[n] = dfs.orig[n]
          /\ \A i \in 1..Len(dfs.stack) : dfs.stack[i].node \in ExprReach(dfs.orig, cur))
  /\ [](pc = "visited" =>
          \A n \in OwnStrides : nodes[n].in[2] = dfs.new_input)
  /\ [][pc = "find" =>
          \A n \in 1..Len(nodes) :
            nodes'[n] # nodes[n] =>
              /\ n = top(dfs.stack)
              /\ nodes[n].op = "OpaqueLoopStride"
              /\ nodes'[n] = [nodes[n] EXCEPT !.in[2] = dfs.new_input]]_vars

\* update_opaque_stride returned: it gave the OpaqueLoopStride node of an
\* expression with an init value computed by an AddI a new input.
C37_Witness ==
  /\ pc = "visited"
  /\ OwnStrides # {}
  /\ \A n \in OwnStrides : nodes[n].in[2] = dfs.new_input /\ dfs.orig[n].in[2] # dfs.new_input
  /\ is_valid(nodes, In(nodes, OpaqueInitIdx, 1))

\* The traversal is at the AddI that computes the init value, pushed as the
\* input of the OpaqueLoopInit node, after it gave the OpaqueLoopStride node
\* its new input.
C37_WitnessDescent ==
  /\ pc = "find"
  /\ PushedBelow({"OpaqueLoopInit"}) # {}
  /\ top(dfs.stack) = In(nodes, OpaqueInitIdx, 1)
  /\ nodes[top(dfs.stack)].op = "AddI"
  /\ OwnStrides # {}
  /\ \A n \in OwnStrides : nodes[n].in[2] = dfs.new_input


(***************************************************************************)
(* G1SurvRateGroup (gc/g1/g1SurvRateGroup.cpp).  The group object is the    *)
(* value of cur; an array of the source is a sequence, element i of the     *)
(* array being element i + 1 of the sequence.  A TruncatedSeq is modelled   *)
(* by the value last() returns, the value of the last add(); a double is a  *)
(* symbolic rate, a sum of doubles the sequence of its summands.  In this   *)
(* specification seen tells whether stop_adding_regions() ran after the     *)
(* last region was added (history), and last describes the last call.       *)
(***************************************************************************)

MaxRegions == 3       \* regions added to a group between two resets

\* The survivor rates record_surviving_words computes from its surv_words.
Rates == {"low", "high"}

InitialSurvivorRate == "initial"

\* The fields as the initializer list of the constructor sets them.
NewG1SurvRateGroup ==
  [stats_arrays_length |-> 0, num_added_regions |-> 0, accum_surv_rate_pred |-> <<>>,
   last_pred |-> "zero", surv_rate_predictors |-> <<>>]

\* The loop of stop_adding_regions from index i on.
RECURSIVE init_predictors(_, _)
init_predictors(s, i) ==
  IF i >= s.num_added_regions THEN s
  ELSE LET next_pred == IF i = 0 THEN InitialSurvivorRate ELSE s.surv_rate_predictors[i]
           accum == IF i = 0 THEN <<InitialSurvivorRate>>
                    ELSE Append(s.accum_surv_rate_pred[i], next_pred)
       IN init_predictors(
            [s EXCEPT !.surv_rate_predictors = Append(@, next_pred),
                      !.accum_surv_rate_pred = Append(@, accum)], i + 1)

stop_adding_regions_M38(s) ==
  LET s1 == init_predictors(
              [s EXCEPT !.surv_rate_predictors =
                          SubSeq(@, 1, IF s.num_added_regions > s.stats_arrays_length
                                       THEN s.stats_arrays_length ELSE s.num_added_regions),
                        !.accum_surv_rate_pred =
                          SubSeq(@, 1, IF s.num_added_regions > s.stats_arrays_length
                                       THEN s.stats_arrays_length ELSE s.num_added_regions)],
              s.stats_arrays_length)
  IN [s1 EXCEPT !.last_pred = IF s.num_added_regions > 0
                              THEN s1.surv_rate_predictors[s.num_added_regions] ELSE @,
                !.stats_arrays_length = s.num_added_regions]

\* G1SurvRateGroup::stop_adding_regions: the arrays are reallocated to
\* _num_added_regions elements, the first _stats_arrays_length are kept.
stop_adding_regions(s) ==
  IF s.num_added_regions > s.stats_arrays_length
  THEN LET s1 == init_predictors(
                   [s EXCEPT !.surv_rate_predictors = SubSeq(@, 1, s.stats_arrays_length),
                             !.accum_surv_rate_pred = SubSeq(@, 1, s.stats_arrays_length)],
                   s.stats_arrays_length)
       IN [s1 EXCEPT !.last_pred = s1.surv_rate_predictors[s.num_added_regions],
                     !.stats_arrays_length = s.num_added_regions]
  ELSE s

\* G1SurvRateGroup::reset (the guarantee holds, see C38).
reset(s) ==
  LET s1 == stop_adding_regions([s EXCEPT !.last_pred = "zero",
                                          !.num_added_regions = 1,
                                          !.stats_arrays_length = 0])
  IN [s1 EXCEPT !.num_added_regions = 0]

\* G1SurvRateGroup::start_adding_regions.
start_adding_regions(s) == [s EXCEPT !.num_added_regions = 0]

\* G1SurvRateGroup::next_age_index: a region is added to the group.
next_age_index(s) == [s EXCEPT !.num_added_regions = @ + 1]

\* G1SurvRateGroup::is_valid_age.
is_valid_age(s, age) == age < s.num_added_regions

\* The entries of the predictor array an access to index i touches, and whether
\* the array has such an entry.
in_bounds(s, i) == i >= 0 /\ i < s.stats_arrays_length

\* G1SurvRateGroup::record_surviving_words when the array has entry 'age'.
record_surviving_words(s, age, surv_rate) ==
  [s EXCEPT !.surv_rate_predictors[age + 1] = surv_rate]

fill_in_last_surv_rates_M39(s) ==
  IF s.num_added_regions > 0
  THEN LET surv_rate == IF in_bounds(s, s.num_added_regions - 1)
                        THEN s.surv_rate_predictors[s.num_added_regions] ELSE "garbage"
           written == s.num_added_regions..s.stats_arrays_length
       IN [s |-> [s EXCEPT !.surv_rate_predictors =
                    [i \in 1..Len(@) |-> IF (i - 1) \in written THEN surv_rate ELSE @[i]]],
           reads |-> {s.num_added_regions - 1}, writes |-> written]
  ELSE [s |-> s, reads |-> {}, writes |-> {}]

\* G1SurvRateGroup::fill_in_last_surv_rates: the group afterwards when every
\* entry it touches is an entry of the array, and the indices of the predictor
\* array it reads and writes.
fill_in_last_surv_rates(s) ==
  IF s.num_added_regions > 0
  THEN LET surv_rate == IF in_bounds(s, s.num_added_regions - 1)
                        THEN s.surv_rate_predictors[s.num_added_regions] ELSE "garbage"
           written == s.num_added_regions..(s.stats_arrays_length - 1)
       IN [s |-> [s EXCEPT !.surv_rate_predictors =
                    [i \in 1..Len(@) |-> IF (i - 1) \in written THEN surv_rate ELSE @[i]]],
           reads |-> {s.num_added_regions - 1}, writes |-> written]
  ELSE [s |-> s, reads |-> {}, writes |-> {}]

\* G1SurvRateGroup::finalize_predictions: the prediction of a predictor is
\* taken to be its last value.
finalize_predictions(s) ==
  LET n == s.stats_arrays_length
  IN [s EXCEPT !.accum_surv_rate_pred =
                 [i \in 1..n |-> SubSeq(s.surv_rate_predictors, 1, i)],
               !.last_pred = IF n = 0 THEN "zero" ELSE s.surv_rate_predictors[n]]

\* The call record of an operation of the group.
G1Call(op, pre, age, reads, writes) ==
  [op |-> op, pre |-> pre, stopped |-> seen, age |-> age, reads |-> reads, writes |-> writes]

\* The constructor: reset() and start_adding_regions() on the new object.
InitG1 ==
  /\ cur = start_adding_regions(reset(NewG1SurvRateGroup))
  /\ seen = TRUE
  /\ last = [op |-> "G1SurvRateGroup", pre |-> NewG1SurvRateGroup, stopped |-> TRUE,
             age |-> 0, reads |-> {}, writes |-> {}]
  /\ pc = "g1"
  /\ nodes = <<>>
  /\ loops = <<>>
  /\ env = [LoopUnswitching |-> FALSE, debug |-> FALSE, budget |-> 0]
  /\ res = "none"
  /\ dfs = NoDfs

Reset ==
  /\ pc = "g1"
  /\ cur' = reset(cur)
  /\ seen' = TRUE
  /\ last' = G1Call("reset", cur, 0, {}, {})
  /\ UNCHANGED <<nodes, loops, env, pc, res, dfs>>

StartAddingRegions ==
  /\ pc = "g1"
  /\ cur' = start_adding_regions(cur)
  /\ last' = G1Call("start_adding_regions", cur, 0, {}, {})
  /\ UNCHANGED <<nodes, loops, env, pc, res, seen, dfs>>

\* A region is added to the group.
NextAgeIndex ==
  /\ pc = "g1"
  /\ cur.num_added_regions < MaxRegions
  /\ cur' = next_age_index(cur)
  /\ seen' = FALSE
  /\ last' = G1Call("next_age_index", cur, cur.num_added_regions, {}, {})
  /\ UNCHANGED <<nodes, loops, env, pc, res, dfs>>

StopAddingRegions ==
  /\ pc = "g1"
  /\ cur' = stop_adding_regions(cur)
  /\ seen' = TRUE
  /\ last' = G1Call("stop_adding_regions", cur, 0, {}, {})
  /\ UNCHANGED <<nodes, loops, env, pc, res, dfs>>

\* record_surviving_words with a valid age.  An access to an entry the array
\* does not have is undefined: the call crashes, or it writes to memory that is
\* not the group's.
RecordSurvivingWords(age, surv_rate) ==
  /\ pc = "g1"
  /\ is_valid_age(cur, age)
  /\ last' = G1Call("record_surviving_words", cur, age, {age}, {age})
  /\ IF in_bounds(cur, age)
     THEN cur' = record_surviving_words(cur, age, surv_rate) /\ pc' = pc
     ELSE cur' = cur /\ pc' \in {"g1", "crashed"}
  /\ UNCHANGED <<nodes, loops, env, res, seen, dfs>>

\* all_surviving_words_recorded.  A read of an entry the array does not have
\* is undefined: the call crashes, or goes on with the value it found.
AllSurvivingWordsRecorded(update_predictors) ==
  /\ pc = "g1"
  /\ LET acc == IF update_predictors THEN fill_in_last_surv_rates(cur)
                ELSE [s |-> cur, reads |-> {}, writes |-> {}]
         ok == \A i \in acc.reads \cup acc.writes : in_bounds(cur, i)
     IN /\ last' = G1Call("all_surviving_words_recorded", cur, 0, acc.reads, acc.writes)
        /\ IF ok
           THEN cur' = finalize_predictions(acc.s) /\ pc' = pc
           ELSE \/ cur' = cur /\ pc' = "crashed"
                \/ cur' = finalize_predictions(acc.s) /\ pc' = pc
  /\ UNCHANGED <<nodes, loops, env, res, seen, dfs>>

NextG1 ==
  \/ Reset
  \/ StartAddingRegions
  \/ NextAgeIndex
  \/ StopAddingRegions
  \/ \E age \in 0..(MaxRegions - 1), surv_rate \in Rates : RecordSurvivingWords(age, surv_rate)
  \/ \E update_predictors \in BOOLEAN : AllSurvivingWordsRecorded(update_predictors)

SpecG1 == InitG1 /\ [][NextG1]_vars

-----------------------------------------------------------------------------

\* The larger of two numbers.
MaxOf(a, b) == IF a >= b THEN a ELSE b

\* C38: after construction and after any sequence of calls _stats_arrays_length
\* is at least 1 (and is the length of both arrays); stop_adding_regions never
\* shrinks it: afterwards it is the maximum of its old value and
\* _num_added_regions, which the call leaves alone; reset brings it back to
\* exactly 1 with _num_added_regions = 0.
C38_StatsArraysLength ==
  /\ [](/\ cur.stats_arrays_length >= 1
        /\ Len(cur.surv_rate_predictors) = cur.stats_arrays_length
        /\ Len(cur.accum_surv_rate_pred) = cur.stats_arrays_length)
  /\ [][last'.op = "stop_adding_regions" =>
          /\ cur'.stats_arrays_length =
               MaxOf(cur.stats_arrays_length, cur.num_added_regions)
          /\ cur'.stats_arrays_length >= cur.stats_arrays_length
          /\ cur'.num_added_regions = cur.num_added_regions]_vars
  /\ [][last'.op = "reset" =>
          cur'.stats_arrays_length = 1 /\ cur'.num_added_regions = 0]_vars

\* stop_adding_regions was called with fewer regions added than the arrays
\* are long: the arrays kept their length.
C38_Witness ==
  /\ last.op = "stop_adding_regions"
  /\ last.pre.num_added_regions > 0
  /\ last.pre.num_added_regions < last.pre.stats_arrays_length
  /\ cur.stats_arrays_length = last.pre.stats_arrays_length

\* stop_adding_regions made the arrays longer by two entries or more.
C38_WitnessGrown ==
  /\ last.op = "stop_adding_regions"
  /\ cur.stats_arrays_length >= last.pre.stats_arrays_length + 2

\* reset was called on a group with arrays longer than 1 and regions added.
C38_WitnessReset ==
  /\ last.op = "reset"
  /\ last.pre.stats_arrays_length > 1
  /\ last.pre.num_added_regions > 0
  /\ cur.stats_arrays_length = 1

\* The indices of the predictor array the last call touched are entries of
\* the array as it was when the call was made.
AccessesInBounds ==
  /\ last.op = "record_surviving_words" => last.age < last.pre.stats_arrays_length
  /\ last.op = "all_surviving_words_recorded" =>
       \A i \in last.reads \cup last.writes : i >= 0 /\ i < last.pre.stats_arrays_length

\* C39 (as stated): in any order of the calls, record_surviving_words with a
\* valid age and fill_in_last_surv_rates touch entries of the predictor array
\* below _stats_arrays_length only.
C39_Original == AccessesInBounds

\* C39 (as the code has it): when stop_adding_regions was called after the
\* last region was added, _num_added_regions <= _stats_arrays_length, so a
\* valid age is an index of the predictor array and fill_in_last_surv_rates
\* reads and writes entries below _stats_arrays_length only; without that
\* call only the writes of fill_in_last_surv_rates are known to be below
\* _stats_arrays_length, and an access outside the array is made with more
\* regions added than the arrays are long.
C39_InBoundsAfterStop ==
  /\ seen => cur.num_added_regions <= cur.stats_arrays_length
  /\ last.stopped => AccessesInBounds /\ pc # "crashed"
  /\ last.op = "all_surviving_words_recorded" =>
       \A i \in last.writes : i >= 0 /\ i < last.pre.stats_arrays_length
  /\ ~AccessesInBounds => last.pre.num_added_regions > last.pre.stats_arrays_length

\* After two regions were added and stop_adding_regions was called, a rate was
\* recorded for the second region.
C39_Witness ==
  /\ last.op = "record_surviving_words"
  /\ last.stopped
  /\ last.age >= 1
  /\ cur.surv_rate_predictors[last.age + 1] \in Rates

\* fill_in_last_surv_rates copied the rate of the last region added to the
\* entries above it, after stop_adding_regions.
C39_WitnessFillIn ==
  /\ last.op = "all_surviving_words_recorded"
  /\ last.stopped
  /\ last.reads # {} /\ last.writes # {}
  /\ \A i \in last.writes :
       cur.surv_rate_predictors[i + 1] = last.pre.surv_rate_predictors[last.pre.num_added_regions]

====
